---- MODULE Spec2Model ----
(***************************************************************************)
(* ASDF burn tracker backend: the backoff fetcher, the in-memory cache and *)
(* the two refresh cycles that write it (fetchAndCacheData every minute,   *)
(* fetchTokenPriceStaggered every tenth minute), and the read routes.      *)
(*                                                                         *)
(* The modelled program is the latest server variant, the second file of   *)
(* src/unnamed/part_001 (lines 237-654).  src/server.js carries the same   *)
(* exponentialBackoffFetch and the same early cache.burn write.            *)
(*                                                                         *)
(* JavaScript runs one callback at a time: the code between two awaits is  *)
(* one atomic action, and a run is suspended at each await.                *)
(***************************************************************************)
EXTENDS Integers, Sequences, FiniteSets, TLC

VARIABLES
    bf,              \* the one exponentialBackoffFetch call under study
    boot,            \* position of the module-level script
    now,             \* elapsed time since process start, in units of 30 s
    cache,           \* the cache object
    cacheCycleCount, \* the price-tick counter
    fastTimer,       \* due time of setInterval(fetchAndCacheData)
    priceTimer,      \* due time of the stagger timeout / the price interval
    fast,            \* the suspended runs of fetchAndCacheData, by start number
    nFast,           \* number of fetchAndCacheData runs started
    slow,            \* the suspended fetching runs of fetchTokenPriceStaggered
    nSlow,           \* number of fetching runs started
    writer,          \* history: which fast run last wrote each sub-record
    lastEnded,       \* history: the run that ended last, and how
    hist,            \* the memo file and the fetchSolHistoricalPrices call under study
    pg,              \* the one fetchAllEnhancedTransactions call under study
    calc,            \* one application of a derivation function to its input
    served,          \* route and status code of the last response of the Read API
    srv              \* the timers of server.js, whose scheduler is studied on its own

vars == << bf, boot, now, cache, cacheCycleCount, fastTimer, priceTimer,
           fast, nFast, slow, nSlow, writer, lastEnded, hist, pg, calc, served,
           srv >>

\* The calls studied on their own and the last response; the scheduler leaves
\* them alone.
side == << bf, hist, pg, calc, served, srv >>

\* The scheduler's variables; the calls studied on their own leave them alone.
schedVars == << boot, now, cache, cacheCycleCount, fastTimer, priceTimer,
                fast, nFast, slow, nSlow, writer, lastEnded >>

\* A call under study that is not part of the specification at hand.
Unused == [pc |-> "unused"]

(***************************************************************************)
(* Part 1.  exponentialBackoffFetch(url, options, maxRetries, category)    *)
(***************************************************************************)

\* Default of the maxRetries parameter; every caller passes 5.
DefaultMaxRetries == 5

\* HTTP statuses an attempt can receive.
Statuses == {200, 404, 429, 500}

\* Messages of the transport errors fetch can reject with.
NetErrors == {"ECONNRESET", "ETIMEDOUT"}

\* Jitter Math.random() * 500 lies in [0, 500); the two ends are enough.
Jitters == {0, 499}

\* What one attempt's `await fetch(url, options)` produces: a response with a
\* status, or a rejection with a message (err # "").
Responses ==
    {[err |-> "", status |-> s] : s \in Statuses} \cup
    {[err |-> e, status |-> 0] : e \in NetErrors}

\* res.ok
ResOk(resp) == resp.err = "" /\ resp.status >= 200 /\ resp.status <= 299

\* res.status === 429 || res.status >= 500
RetryableStatus(resp) ==
    resp.err = "" /\ ~ResOk(resp) /\ (resp.status = 429 \/ resp.status >= 500)

\* A status for which the code reaches `throw new Error("... non-retryable ...")`.
NonRetryableStatus(resp) ==
    resp.err = "" /\ ~ResOk(resp) /\ ~RetryableStatus(resp)

RECURSIVE Pow2(_)
Pow2(n) == IF n = 0 THEN 1 ELSE 2 * Pow2(n - 1)

\* Math.pow(2, attempt) * 1000 + Math.random() * 500
StatusDelay(attempt, jitter) == Pow2(attempt) * 1000 + jitter

\* Math.pow(2, attempt) * 500 + Math.random() * 500
ErrorDelay(attempt, jitter) == Pow2(attempt) * 500 + jitter

\* A loop that stops one attempt early.
LoopContinuesOffByOne(attempt, maxRetries) == attempt < maxRetries - 1

\* A loop that allows one attempt more.
LoopContinuesOnceMore(attempt, maxRetries) == attempt <= maxRetries

\* The loop condition `attempt < maxRetries`.
LoopContinues(attempt, maxRetries) == attempt < maxRetries

\* A last-attempt test that no attempt of the loop satisfies.
IsLastAttemptNever(attempt, maxRetries) == attempt = maxRetries

\* The catch block's test `attempt === maxRetries - 1`.
IsLastAttempt(attempt, maxRetries) == attempt = maxRetries - 1

\* error.message of what the catch block caught: the transport error's message,
\* or the message of the Error thrown in the try block for the status.
CaughtMessage(resp) ==
    IF resp.err # "" THEN [kind |-> "network", text |-> resp.err, status |-> 0]
    ELSE [kind |-> "non-retryable status", text |-> "", status |-> resp.status]

NoMessage == [kind |-> "", text |-> "", status |-> 0]

\* The value the call settles with.  kind: "" (pending), "response" (return res),
\* "undefined" (the loop ran out and the function body ended), "error" (the
\* Error `API failed after ${maxRetries} attempts: ${error.message}`).
NoResult == [kind |-> "", status |-> 0, attempts |-> 0, message |-> NoMessage]

BfIdle(m) ==
    [pc |-> "idle", maxRetries |-> m, attempt |-> 0, requests |-> 0,
     resps |-> << >>, delays |-> << >>, result |-> NoResult]

\* The call: the loop is entered and the first fetch is issued.
BackoffCall ==
    /\ bf.pc = "idle"
    /\ IF LoopContinues(0, bf.maxRetries)
       THEN bf' = [bf EXCEPT !.pc = "fetching", !.requests = 1]
       ELSE bf' = [bf EXCEPT !.pc = "returned", !.result.kind = "undefined"]
    /\ UNCHANGED << schedVars, served, srv, hist, pg, calc >>

\* `await fetch` settles with resp; the code runs up to the next await, return
\* or throw.
BackoffResponse(resp, jitter) ==
    /\ bf.pc = "fetching"
    /\ LET seen == [bf EXCEPT !.resps = Append(@, resp)] IN
       IF ResOk(resp)
       THEN bf' = [seen EXCEPT !.pc = "returned",
                               !.result = [NoResult EXCEPT !.kind = "response",
                                                           !.status = resp.status]]
       ELSE IF RetryableStatus(resp)
       THEN bf' = [seen EXCEPT !.pc = "sleeping",
                               !.delays = Append(@, [after |-> "status",
                                   ms |-> StatusDelay(bf.attempt, jitter)])]
       ELSE IF IsLastAttempt(bf.attempt, bf.maxRetries)
       THEN bf' = [seen EXCEPT !.pc = "thrown",
                               !.result = [NoResult EXCEPT !.kind = "error",
                                   !.attempts = bf.maxRetries,
                                   !.message = CaughtMessage(resp)]]
       ELSE bf' = [seen EXCEPT !.pc = "sleeping",
                               !.delays = Append(@, [after |-> "error",
                                   ms |-> ErrorDelay(bf.attempt, jitter)])]
    /\ UNCHANGED << schedVars, served, srv, hist, pg, calc >>

\* The backoff timer fires: attempt++ and the loop condition is tested again.
BackoffWake ==
    /\ bf.pc = "sleeping"
    /\ IF LoopContinues(bf.attempt + 1, bf.maxRetries)
       THEN bf' = [bf EXCEPT !.pc = "fetching", !.attempt = @ + 1,
                             !.requests = @ + 1]
       ELSE bf' = [bf EXCEPT !.pc = "returned", !.attempt = @ + 1,
                             !.result.kind = "undefined"]
    /\ UNCHANGED << schedVars, served, srv, hist, pg, calc >>

BfEnded == bf.pc \in {"returned", "thrown"}


(***************************************************************************)
(* Part 2.  Configuration and the derivation functions                     *)
(***************************************************************************)

TOKEN_MINT == "9zB5wRarXMj86MymwLumSKA1Dx35zPqqKfcZtK1Spump"
TOKEN_TOTAL_SUPPLY == 1000000000
TRACKED_WALLET == "vcGYZbvDid6cRUkCCqcWpBxow73TLpmY6ipmDUtrTF8"
PURCHASE_SOURCE_ADDRESS == "DuhRX5JTPtsWU5n44t8tcFEfmzy2Eu27p4y6z8Rhf2bb"

\* The divisor 1e9 of `Number(totalLamports) / 1e9`.
LAMPORTS_PER_SOL == 1000000000

\* A JavaScript number that is a quotient of integers, kept exact as a fraction
\* in lowest terms (den > 0); an integer k is [num |-> k, den |-> 1].
RECURSIVE Gcd(_, _)
Gcd(a, b) == IF b = 0 THEN a ELSE Gcd(b, a % b)

Abs(x) == IF x < 0 THEN -x ELSE x

Frac(n, d) ==
    LET g == Gcd(Abs(n), d) IN [num |-> n \div g, den |-> d \div g]

FracZero == [num |-> 0, den |-> 1]

\* One enhanced transaction as the history API returns it.
Tx(ts, natives, tokens, sig) ==
    [timestamp |-> ts, nativeTransfers |-> natives, tokenTransfers |-> tokens,
     signature |-> sig]

\* tx.nativeTransfers || []
NativesOrNone(tx) ==
    IF "nativeTransfers" \in DOMAIN tx THEN tx.nativeTransfers ELSE << >>

\* The native transfers of all transactions, in scan order, each with its
\* transaction's timestamp.
RECURSIVE NativeTransfersOf(_)
NativeTransfersOf(transactions) ==
    IF transactions = << >> THEN << >>
    ELSE LET tx == Head(transactions)
             transfers == NativesOrNone(tx) IN
         [i \in 1..Len(transfers) |-> [nt |-> transfers[i], timestamp |-> tx.timestamp]]
         \o NativeTransfersOf(Tail(transactions))

RECURSIVE SumLamports(_)
SumLamports(receipts) ==
    IF receipts = << >> THEN 0
    ELSE Head(receipts).lamports + SumLamports(Tail(receipts))

\* A test that lets a transfer of zero lamports through.
KeepsTransferOfZero(nt, wallet) ==
    /\ nt.toUserAccount = wallet
    /\ "amount" \in DOMAIN nt
    /\ nt.amount >= 0

\* The three `continue` tests of the inner loop, negated: the destination is
\* the wallet, the amount is there (a transfer without the field has amount
\* undefined, which == null), and it is positive.
KeepsTransfer(nt, wallet) ==
    /\ nt.toUserAccount = wallet
    /\ "amount" \in DOMAIN nt
    /\ nt.amount > 0

\* extractSolReceipts(transactions, wallet): the receipts and totalSol.  The
\* lamports of a receipt, a decimal string in the code, are kept as the integer
\* it spells.
extractSolReceipts(transactions, wallet) ==
    LET kept == SelectSeq(NativeTransfersOf(transactions),
                    LAMBDA e : KeepsTransfer(e.nt, wallet))
        receipts == [i \in 1..Len(kept) |->
                        [lamports |-> kept[i].nt.amount, timestamp |-> kept[i].timestamp]]
    IN [receipts |-> receipts,
        totalSol |-> Frac(SumLamports(receipts), LAMPORTS_PER_SOL)]

\* A loop in which a later point also replaces the best one at equal distance.
RECURSIVE NearestFromLastTie(_, _, _, _, _)
NearestFromLastTie(priceSeries, targetMs, i, best, bestDiff) ==
    IF i > Len(priceSeries) THEN best
    ELSE LET diff == Abs(targetMs - priceSeries[i].tMs) IN
         IF diff <= bestDiff
         THEN NearestFromLastTie(priceSeries, targetMs, i + 1, priceSeries[i].priceUsd, diff)
         ELSE NearestFromLastTie(priceSeries, targetMs, i + 1, best, bestDiff)

\* The loop of nearestPrice from index i on: a later point replaces the best
\* one only when strictly nearer.
RECURSIVE NearestFrom(_, _, _, _, _)
NearestFrom(priceSeries, targetMs, i, best, bestDiff) ==
    IF i > Len(priceSeries) THEN best
    ELSE LET diff == Abs(targetMs - priceSeries[i].tMs) IN
         IF diff < bestDiff
         THEN NearestFrom(priceSeries, targetMs, i + 1, priceSeries[i].priceUsd, diff)
         ELSE NearestFrom(priceSeries, targetMs, i + 1, best, bestDiff)

nearestPrice(priceSeries, targetMs) ==
    NearestFrom(priceSeries, targetMs, 2, priceSeries[1].priceUsd,
                Abs(targetMs - priceSeries[1].tMs))

\* A sum that looks the price up at the receipt's time in seconds.
RECURSIVE SumLamportUsdAtSeconds(_, _)
SumLamportUsdAtSeconds(receipts, priceSeries) ==
    IF receipts = << >> THEN 0
    ELSE Head(receipts).lamports
            * nearestPrice(priceSeries, Head(receipts).timestamp)
         + SumLamportUsdAtSeconds(Tail(receipts), priceSeries)

\* The loop over the receipts: lamports times the nearest price at
\* timestamp * 1000, summed; the division by 10^9 is taken once, outside.
RECURSIVE SumLamportUsd(_, _)
SumLamportUsd(receipts, priceSeries) ==
    IF receipts = << >> THEN 0
    ELSE Head(receipts).lamports
            * nearestPrice(priceSeries, Head(receipts).timestamp * 1000)
         + SumLamportUsd(Tail(receipts), priceSeries)

\* computeLifetimeUsd(receipts, priceSeries)
computeLifetimeUsd(receipts, priceSeries) ==
    IF receipts = << >> \/ priceSeries = << >> THEN FracZero
    ELSE Frac(SumLamportUsd(receipts, priceSeries), LAMPORTS_PER_SOL)

\* tx.tokenTransfers || []
TokensOrNone(tx) ==
    IF "tokenTransfers" \in DOMAIN tx THEN tx.tokenTransfers ELSE << >>

RECURSIVE TokenTransfersOf(_)
TokenTransfersOf(transactions) ==
    IF transactions = << >> THEN << >>
    ELSE TokensOrNone(Head(transactions)) \o TokenTransfersOf(Tail(transactions))

\* The two infinite values of a JavaScript number, as the largest magnitudes.
Infinity == 2147483647
NegInfinity == 0 - Infinity

\* Number.isFinite(amt)
NumberIsFinite(amt) == amt \notin {Infinity, NegInfinity}

\* rawAmt == null ? 0 : Number(rawAmt)
TokenAmountOf(tt) ==
    IF "tokenAmount" \in DOMAIN tt THEN tt.tokenAmount ELSE 0

\* tt.fromUserAccount || ""
FromOrEmpty(tt) ==
    IF "fromUserAccount" \in DOMAIN tt THEN tt.fromUserAccount ELSE ""

RECURSIVE SumTokenAmount(_)
SumTokenAmount(transfers) ==
    IF transfers = << >> THEN 0
    ELSE Head(transfers).tokenAmount + SumTokenAmount(Tail(transfers))

\* A test that does not look at the sender.
KeepsTokenFromAnyone(tt, wallet, mint) ==
    /\ tt.mint = mint
    /\ tt.toUserAccount = wallet
    /\ NumberIsFinite(TokenAmountOf(tt))
    /\ TokenAmountOf(tt) > 0

\* The tests a token transfer passes before its amount is added.
KeepsToken(tt, wallet, mint) ==
    /\ tt.mint = mint
    /\ tt.toUserAccount = wallet
    /\ NumberIsFinite(TokenAmountOf(tt))
    /\ TokenAmountOf(tt) > 0
    /\ FromOrEmpty(tt) = PURCHASE_SOURCE_ADDRESS

\* computeTokenFlows(transactions, wallet, mint).purchasedFromSource
computeTokenFlows(transactions, wallet, mint) ==
    SumTokenAmount(SelectSeq(TokenTransfersOf(transactions),
        LAMBDA tt : KeepsToken(tt, wallet, mint)))


(***************************************************************************)
(* Part 3.  The cache and the upstream answers                             *)
(***************************************************************************)

\* Model time advances in steps of 30 s: the stagger delay of 30000 ms is one
\* step and FAST_CACHE_MS = 60000 ms is two.
StaggerUnits == 1
FastPeriodUnits == 2

\* The `% 10` of fetchTokenPriceStaggered.
SlowEvery == 10

\* Date.now() of the process start, in the same unit; any value > 0.
StartEpoch == 1

\* Date.now() when the model clock shows t.
DateNow(t) == StartEpoch + t

\* The object literal {} : a record without fields.
EmptyObject == [f \in {} |-> 0]

ZeroForecast ==
    [totalVolume |-> 0, totalFees |-> 0, totalWinnings |-> 0, totalLifetimeUsers |-> 0]

\* `let cache = {...}` as the module creates it.
InitialCache ==
    [burn |-> EmptyObject,
     wallet |-> [tokenPriceUsd |-> 0, solPriceUsd |-> 0],
     forecast |-> ZeroForecast,
     lastUpdated |-> 0]

\* uiAmount values the token-supply RPC may answer.
Supplies == {400000000, 1000000000}

\* Transaction histories fetchAllEnhancedTransactions may return.
TxFee ==
    Tx(100,
       << [toUserAccount |-> TRACKED_WALLET, amount |-> 3] >>,
       << [mint |-> TOKEN_MINT, toUserAccount |-> TRACKED_WALLET,
           fromUserAccount |-> PURCHASE_SOURCE_ADDRESS, tokenAmount |-> 7] >>,
       "sig1")

Histories == { << >>, << TxFee >> }

\* Series fetchSolHistoricalPrices may return; the empty one also on failure.
PriceSeries == { << >>, << [tMs |-> 100000, priceUsd |-> 20] >> }

\* What `await fetchASDForecastStats()` may meet: a failed fetch, or a body whose
\* platformStats has the listed fields (totalLifetimeUsers is absent).
ForecastAnswers ==
    { [failed |-> TRUE, platformStats |-> EmptyObject],
      [failed |-> FALSE,
       platformStats |-> [totalVolume |-> 50, totalFees |-> 5,
                          totalWinnings |-> 40]] }

\* platformStats.<field> || 0
FieldOrZero(obj, field) == IF field \in DOMAIN obj THEN obj[field] ELSE 0

\* A stats call that hands back what it got, without the defaults.
fetchASDForecastStatsAsReceived(answer) ==
    IF answer.failed THEN EmptyObject ELSE answer.platformStats

\* fetchASDForecastStats(): never throws.
fetchASDForecastStats(answer) ==
    IF answer.failed THEN ZeroForecast
    ELSE [f \in DOMAIN ZeroForecast |-> FieldOrZero(answer.platformStats, f)]

\* What a spot-price call may meet: a failed fetch, or a body with or without
\* the price field (usdPrice of Jupiter, solana.usd of CoinGecko).
TokenPriceAnswers ==
    { [failed |-> TRUE, body |-> EmptyObject],
      [failed |-> FALSE, body |-> EmptyObject],
      [failed |-> FALSE, body |-> [price |-> 0]],
      [failed |-> FALSE, body |-> [price |-> 2]] }

SolPriceAnswers ==
    { [failed |-> TRUE, body |-> EmptyObject],
      [failed |-> FALSE, body |-> EmptyObject],
      [failed |-> FALSE, body |-> [price |-> 0]],
      [failed |-> FALSE, body |-> [price |-> 150]] }

\* fetchJupiterTokenPrice(mint): tokenData?.usdPrice || 0, and 0 when the
\* fetch fails.
fetchJupiterTokenPrice(answer) ==
    IF answer.failed THEN 0 ELSE FieldOrZero(answer.body, "price")

\* fetchCurrentSolPrice(): the price when positive, else 0.
fetchCurrentSolPrice(answer) ==
    IF answer.failed THEN 0
    ELSE IF FieldOrZero(answer.body, "price") > 0 THEN answer.body.price ELSE 0

\* A percentage left as a fraction of one.
BurnOfAsFraction(currentSupply) ==
    LET burned == TOKEN_TOTAL_SUPPLY - currentSupply IN
    [burnedAmount |-> burned, currentSupply |-> currentSupply,
     burnedPercent |-> burned \div TOKEN_TOTAL_SUPPLY]

\* burnedAmount and burnedPercent of a supply.  The supplies of the model are
\* multiples of a hundredth of the total, so the percentage is an integer.
BurnOf(currentSupply) ==
    LET burned == TOKEN_TOTAL_SUPPLY - currentSupply IN
    [burnedAmount |-> burned, currentSupply |-> currentSupply,
     burnedPercent |-> burned \div (TOKEN_TOTAL_SUPPLY \div 100)]


(***************************************************************************)
(* Part 4.  The scheduler: startup, timers and the two cycles              *)
(***************************************************************************)

\* Horizon of the clock and number of fetchAndCacheData runs followed when runs
\* may stay suspended across timer ticks.
MaxTime == 2
MaxFastRuns == 2

\* The same when every run finishes before the clock moves on.
MaxQuietTime == 22
MaxQuietRuns == 12

\* Number of fetching fetchTokenPriceStaggered runs followed.
MaxSlowRuns == 2

NoRuns == [r \in {} |-> 0]

NoneEnded == [cycle |-> "", run |-> 0, failed |-> FALSE]

With(runs, r, rec) == [x \in DOMAIN runs \cup {r} |-> IF x = r THEN rec ELSE runs[x]]

Without(runs, r) == [x \in DOMAIN runs \ {r} |-> runs[x]]

\* A fetchAndCacheData call run up to its first await (the supply RPC).  start
\* and startedAt are history: the three sub-records and the clock when the run
\* began.
NewFastRun(t, c) ==
    [pc |-> "supply", startedAt |-> t,
     start |-> [burn |-> c.burn, wallet |-> c.wallet, forecast |-> c.forecast],
     txs |-> << >>, lifetimeUsd |-> FracZero]

\* A cycle test that is true one tick late.
TickFetchesOffByOne(count) == count % SlowEvery = 1

\* The condition under which fetchTokenPriceStaggered fetches.
TickFetches(count) == count % SlowEvery = 0

\* A stamp taken when the run began instead of when it writes.
FastStampAtStart(run, t) == DateNow(run.startedAt)

\* The value assigned to cache.lastUpdated by a fast run: Date.now().
FastStamp(run, t) == DateNow(t)

\* A commit that keeps the prices read when the run began.
WalletCommitStalePrices(run, wallet) ==
    [ctoFeesSol |-> extractSolReceipts(run.txs, TRACKED_WALLET).totalSol,
     ctoFeesUsd |-> run.lifetimeUsd,
     purchasedFromSource |-> computeTokenFlows(run.txs, TRACKED_WALLET, TOKEN_MINT),
     tokenPriceUsd |-> run.start.wallet.tokenPriceUsd,
     solPriceUsd |-> run.start.wallet.solPriceUsd]

\* A commit that builds the wallet object without the two price fields.
WalletCommitDropsPrices(run, wallet) ==
    [ctoFeesSol |-> extractSolReceipts(run.txs, TRACKED_WALLET).totalSol,
     ctoFeesUsd |-> run.lifetimeUsd,
     purchasedFromSource |-> computeTokenFlows(run.txs, TRACKED_WALLET, TOKEN_MINT)]

\* The object assigned to cache.wallet by a successful fast run.
WalletCommit(run, wallet) ==
    [ctoFeesSol |-> extractSolReceipts(run.txs, TRACKED_WALLET).totalSol,
     ctoFeesUsd |-> run.lifetimeUsd,
     purchasedFromSource |-> computeTokenFlows(run.txs, TRACKED_WALLET, TOKEN_MINT),
     tokenPriceUsd |-> wallet.tokenPriceUsd,
     solPriceUsd |-> wallet.solPriceUsd]

\* A price update that replaces the wallet object.
PriceCommitReplacing(wallet, tokenPriceUsd, solPriceUsd) ==
    [tokenPriceUsd |-> tokenPriceUsd, solPriceUsd |-> solPriceUsd]

\* cache.wallet after the two price assignments of a slow run.
PriceCommit(wallet, tokenPriceUsd, solPriceUsd) ==
    [f \in DOMAIN wallet \cup {"tokenPriceUsd", "solPriceUsd"} |->
        IF f = "tokenPriceUsd" THEN tokenPriceUsd
        ELSE IF f = "solPriceUsd" THEN solPriceUsd
        ELSE wallet[f]]

\* A script that tests the credential after it has started the first run and
\* armed the timers.
StartupChecksKeyLast(hasKey) ==
    /\ boot = "load"
    /\ boot' = IF hasKey THEN "running" ELSE "exited"
    /\ fast' = With(NoRuns, 1, NewFastRun(now, cache))
    /\ nFast' = 1
    /\ priceTimer' = now + StaggerUnits
    /\ fastTimer' = now + FastPeriodUnits
    /\ UNCHANGED << side, now, cache, cacheCycleCount, slow, nSlow, writer,
                    lastEnded >>

\* The module-level script: the credential check, the first fetchAndCacheData()
\* call, the stagger timeout and the fast interval.
Startup(hasKey) ==
    /\ boot = "load"
    /\ IF hasKey
       THEN /\ boot' = "running"
            /\ fast' = With(NoRuns, 1, NewFastRun(now, cache))
            /\ nFast' = 1
            /\ priceTimer' = now + StaggerUnits
            /\ fastTimer' = now + FastPeriodUnits
       ELSE /\ boot' = "exited"
            /\ UNCHANGED << fast, nFast, priceTimer, fastTimer >>
    /\ UNCHANGED << side, now, cache, cacheCycleCount, slow, nSlow, writer,
                    lastEnded >>

\* A fast timer that skips its tick while an earlier run is suspended or after
\* a run has failed.
FastTimerSkipsWhenBusy(maxRuns) ==
    /\ boot = "running"
    /\ now = fastTimer
    /\ nFast < maxRuns
    /\ IF DOMAIN fast = {} /\ ~lastEnded.failed
       THEN /\ nFast' = nFast + 1
            /\ fast' = With(fast, nFast + 1, NewFastRun(now, cache))
       ELSE UNCHANGED << fast, nFast >>
    /\ fastTimer' = fastTimer + FastPeriodUnits
    /\ UNCHANGED << side, boot, now, cache, cacheCycleCount, priceTimer, slow,
                    nSlow, writer, lastEnded >>

\* setInterval(fetchAndCacheData, FAST_CACHE_MS) fires: a new run starts and
\* suspends on the supply RPC.
FastTimerFiresTo(maxRuns) ==
    /\ boot = "running"
    /\ now = fastTimer
    /\ nFast < maxRuns
    /\ nFast' = nFast + 1
    /\ fast' = With(fast, nFast + 1, NewFastRun(now, cache))
    /\ fastTimer' = fastTimer + FastPeriodUnits
    /\ UNCHANGED << side, boot, now, cache, cacheCycleCount, priceTimer, slow,
                    nSlow, writer, lastEnded >>

FastTimerFires == FastTimerFiresTo(MaxFastRuns)

QuietFastTimerFires == FastTimerFiresTo(MaxQuietRuns)

\* A catch block that logs the error and assigns nothing.
FailRunSilently(r) ==
    /\ fast' = Without(fast, r)
    /\ lastEnded' = [cycle |-> "fast", run |-> r, failed |-> TRUE]
    /\ UNCHANGED << side, boot, now, cache, cacheCycleCount, fastTimer,
                    priceTimer, nFast, slow, nSlow, writer >>

\* The catch block of fetchAndCacheData: only lastUpdated is assigned.
FailRun(r) ==
    /\ cache' = [cache EXCEPT !.lastUpdated = FastStamp(fast[r], now)]
    /\ fast' = Without(fast, r)
    /\ lastEnded' = [cycle |-> "fast", run |-> r, failed |-> TRUE]
    /\ UNCHANGED << side, boot, now, cacheCycleCount, fastTimer, priceTimer,
                    nFast, slow, nSlow, writer >>

\* fetchCurrentTokenSupplyUi() returns: cache.burn is assigned, and the run
\* suspends on the transaction history.
SupplyReturns(r, currentSupply) ==
    /\ r \in DOMAIN fast
    /\ fast[r].pc = "supply"
    /\ cache' = [cache EXCEPT !.burn = BurnOf(currentSupply)]
    /\ writer' = [writer EXCEPT !.burn = r]
    /\ fast' = [fast EXCEPT ![r].pc = "history"]
    /\ UNCHANGED << side, boot, now, cacheCycleCount, fastTimer, priceTimer,
                    nFast, slow, nSlow, lastEnded >>

\* fetchCurrentTokenSupplyUi() throws.
SupplyThrows(r) ==
    /\ r \in DOMAIN fast
    /\ fast[r].pc = "supply"
    /\ FailRun(r)

\* A run that asks for the historical prices whatever the receipts.
HistoryReturnsThenPrices(r, txs) ==
    /\ r \in DOMAIN fast
    /\ fast[r].pc = "history"
    /\ fast' = [fast EXCEPT ![r].txs = txs, ![r].pc = "prices"]
    /\ UNCHANGED << side, boot, now, cache, cacheCycleCount, fastTimer,
                    priceTimer, nFast, slow, nSlow, writer, lastEnded >>

\* fetchAllEnhancedTransactions() returns txs: the receipts are extracted; with
\* receipts the run suspends on the historical prices, without it goes on to
\* the external platform's stats.
HistoryReturns(r, txs) ==
    /\ r \in DOMAIN fast
    /\ fast[r].pc = "history"
    /\ fast' = [fast EXCEPT ![r].txs = txs,
                    ![r].pc = IF extractSolReceipts(txs, TRACKED_WALLET).receipts # << >>
                              THEN "prices" ELSE "forecast"]
    /\ UNCHANGED << side, boot, now, cache, cacheCycleCount, fastTimer,
                    priceTimer, nFast, slow, nSlow, writer, lastEnded >>

\* fetchAllEnhancedTransactions() throws on a page.
HistoryThrows(r) ==
    /\ r \in DOMAIN fast
    /\ fast[r].pc = "history"
    /\ FailRun(r)

\* fetchSolHistoricalPrices() returns (it never throws).
PricesReturn(r, series) ==
    /\ r \in DOMAIN fast
    /\ fast[r].pc = "prices"
    /\ fast' = [fast EXCEPT ![r].pc = "forecast",
                    ![r].lifetimeUsd = computeLifetimeUsd(
                        extractSolReceipts(fast[r].txs, TRACKED_WALLET).receipts, series)]
    /\ UNCHANGED << side, boot, now, cache, cacheCycleCount, fastTimer,
                    priceTimer, nFast, slow, nSlow, writer, lastEnded >>

\* fetchASDForecastStats() returns: wallet, forecast and lastUpdated are
\* assigned and the run ends.
ForecastReturns(r, answer) ==
    /\ r \in DOMAIN fast
    /\ fast[r].pc = "forecast"
    /\ cache' = [cache EXCEPT !.wallet = WalletCommit(fast[r], cache.wallet),
                              !.forecast = fetchASDForecastStats(answer),
                              !.lastUpdated = FastStamp(fast[r], now)]
    /\ writer' = [writer EXCEPT !.wallet = r, !.forecast = r]
    /\ fast' = Without(fast, r)
    /\ lastEnded' = [cycle |-> "fast", run |-> r, failed |-> FALSE]
    /\ UNCHANGED << side, boot, now, cacheCycleCount, fastTimer, priceTimer,
                    nFast, slow, nSlow >>

\* A price tick that does nothing while a fetchAndCacheData run is suspended.
PriceTimerWaitsForFast ==
    /\ boot = "running"
    /\ now = priceTimer
    /\ DOMAIN fast = {}
    /\ IF TickFetches(cacheCycleCount)
       THEN /\ nSlow < MaxSlowRuns
            /\ nSlow' = nSlow + 1
            /\ slow' = With(slow, nSlow + 1,
                    [pc |-> "token", startedAt |-> now, cycle |-> cacheCycleCount,
                     tokenPriceUsd |-> 0])
       ELSE UNCHANGED << slow, nSlow >>
    /\ cacheCycleCount' = cacheCycleCount + 1
    /\ priceTimer' = priceTimer + FastPeriodUnits
    /\ UNCHANGED << side, boot, now, cache, fastTimer, fast, nFast, writer,
                    lastEnded >>

\* The stagger timeout or the price interval fires: fetchTokenPriceStaggered()
\* runs up to its return or first await, then cacheCycleCount++.
PriceTimerFires ==
    /\ boot = "running"
    /\ now = priceTimer
    /\ IF TickFetches(cacheCycleCount)
       THEN /\ nSlow < MaxSlowRuns
            /\ nSlow' = nSlow + 1
            /\ slow' = With(slow, nSlow + 1,
                    [pc |-> "token", startedAt |-> now, cycle |-> cacheCycleCount,
                     tokenPriceUsd |-> 0])
       ELSE UNCHANGED << slow, nSlow >>
    /\ cacheCycleCount' = cacheCycleCount + 1
    /\ priceTimer' = priceTimer + FastPeriodUnits
    /\ UNCHANGED << side, boot, now, cache, fastTimer, fast, nFast, writer,
                    lastEnded >>

\* fetchJupiterTokenPrice() returns; the run suspends on fetchCurrentSolPrice().
TokenPriceReturns(s, answer) ==
    /\ s \in DOMAIN slow
    /\ slow[s].pc = "token"
    /\ slow' = [slow EXCEPT ![s].pc = "sol",
                    ![s].tokenPriceUsd = fetchJupiterTokenPrice(answer)]
    /\ UNCHANGED << side, boot, now, cache, cacheCycleCount, fastTimer,
                    priceTimer, fast, nFast, nSlow, writer, lastEnded >>

\* A commit that stores the native-asset price only next to a token price.
SolPriceReturnsIfTokenOk(s, answer) ==
    /\ s \in DOMAIN slow
    /\ slow[s].pc = "sol"
    /\ cache' = [cache EXCEPT
            !.wallet = IF slow[s].tokenPriceUsd > 0
                       THEN PriceCommit(cache.wallet, slow[s].tokenPriceUsd,
                                        fetchCurrentSolPrice(answer))
                       ELSE cache.wallet,
            !.lastUpdated = DateNow(now)]
    /\ slow' = Without(slow, s)
    /\ lastEnded' = [cycle |-> "slow", run |-> s, failed |-> FALSE]
    /\ UNCHANGED << side, boot, now, cacheCycleCount, fastTimer, priceTimer,
                    fast, nFast, nSlow, writer >>

\* fetchCurrentSolPrice() returns: the two prices and lastUpdated are assigned.
SolPriceReturns(s, answer) ==
    /\ s \in DOMAIN slow
    /\ slow[s].pc = "sol"
    /\ cache' = [cache EXCEPT
            !.wallet = PriceCommit(cache.wallet, slow[s].tokenPriceUsd,
                                   fetchCurrentSolPrice(answer)),
            !.lastUpdated = DateNow(now)]
    /\ slow' = Without(slow, s)
    /\ lastEnded' = [cycle |-> "slow", run |-> s, failed |-> FALSE]
    /\ UNCHANGED << side, boot, now, cacheCycleCount, fastTimer, priceTimer,
                    fast, nFast, nSlow, writer >>

\* A readiness test on the burn data instead of on lastUpdated.
CheckCacheNeedsBurn == "burnedAmount" \in DOMAIN cache.burn

\* checkCache lets a request through to the burn-stats or wallet-stats handler.
CheckCachePasses == cache.lastUpdated # 0

\* { ...a, ...b } : the fields of both, those of b winning.
Spread(a, b) == [f \in DOMAIN a \cup DOMAIN b |-> IF f \in DOMAIN b THEN b[f] ELSE a[f]]

\* The response of checkCache while the cache is cold.
ServiceUnavailable ==
    [status |-> 503,
     body |-> [error |-> "Service unavailable, initializing data cache."]]

\* GET /api/burn as it would be answered in the current state.
GetApiBurn ==
    IF CheckCachePasses
    THEN [status |-> 200,
          body |-> Spread(Spread(cache.burn, cache.forecast),
                          [lastUpdated |-> cache.lastUpdated])]
    ELSE ServiceUnavailable

\* GET /api/wallet as it would be answered in the current state.
GetApiWallet ==
    IF CheckCachePasses
    THEN [status |-> 200,
          body |-> Spread(cache.wallet, [lastUpdated |-> cache.lastUpdated])]
    ELSE ServiceUnavailable

\* GET / as it would be answered in the current state: the age of the cache in
\* seconds and the cached token price.
GetRoot ==
    [status |-> 200,
     body |-> [status |-> "ok",
               message |-> "ASDF Tracker Backend is running and serving cached data.",
               cacheAge |-> 30 * (DateNow(now) - cache.lastUpdated),
               lastPrice |-> cache.wallet.tokenPriceUsd]]

Routes == {"/", "/api/burn", "/api/wallet"}

\* No request handled yet.
NoResponse == [route |-> "", status |-> 0]

\* The response the route's handler sends in the current state.
Respond(route) ==
    IF route = "/" THEN GetRoot
    ELSE IF route = "/api/burn" THEN GetApiBurn
    ELSE GetApiWallet

\* A handler that stamps the cache when it answers.
ServeAndStamp(route) ==
    /\ boot = "running"
    /\ served' = [route |-> route, status |-> Respond(route).status]
    /\ cache' = [cache EXCEPT !.lastUpdated = DateNow(now)]
    /\ UNCHANGED << bf, hist, pg, calc, srv, boot, now, cacheCycleCount, fastTimer,
                    priceTimer, fast, nFast, slow, nSlow, writer, lastEnded >>

\* A GET request on a route is handled: the response Respond(route) is sent.
\* Of the response the route and the status code are kept.
Serve(route) ==
    /\ boot = "running"
    /\ served' = [route |-> route, status |-> Respond(route).status]
    /\ UNCHANGED << schedVars, bf, hist, pg, calc, srv >>

\* Time passes; a timer that is due fires first.
TickTo(limit, maxRuns) ==
    /\ boot = "running"
    /\ now < limit
    /\ now # priceTimer
    /\ ~(now = fastTimer /\ nFast < maxRuns)
    /\ now' = now + 1
    /\ UNCHANGED << side, boot, cache, cacheCycleCount, fastTimer, priceTimer,
                    fast, nFast, slow, nSlow, writer, lastEnded >>

Tick == TickTo(MaxTime, MaxFastRuns)

\* Time passes while no run is suspended.
QuietTick ==
    /\ DOMAIN fast = {}
    /\ DOMAIN slow = {}
    /\ TickTo(MaxQuietTime, MaxQuietRuns)

SchedInit ==
    /\ boot = "load"
    /\ now = 0
    /\ cache = InitialCache
    /\ cacheCycleCount = 0
    /\ fastTimer = 0
    /\ priceTimer = 0
    /\ fast = NoRuns
    /\ nFast = 0
    /\ slow = NoRuns
    /\ nSlow = 0
    /\ writer = [burn |-> 0, wallet |-> 0, forecast |-> 0]
    /\ lastEnded = NoneEnded
    /\ served = NoResponse

\* The calls studied on their own, as left out of a specification.
HistUnused == hist = Unused
PgUnused == pg = Unused
CalcUnused == calc = Unused

SrvUnused == srv = Unused

\* The scheduler with runs that may stay suspended across timer ticks.
Init ==
    /\ SchedInit
    /\ SrvUnused
    /\ bf = BfIdle(DefaultMaxRetries)
    /\ HistUnused /\ PgUnused /\ CalcUnused

Next ==
    \/ \E hasKey \in BOOLEAN : Startup(hasKey)
    \/ FastTimerFires
    \/ PriceTimerFires
    \/ \E r \in 1..nFast, currentSupply \in Supplies : SupplyReturns(r, currentSupply)
    \/ \E r \in 1..nFast : SupplyThrows(r)
    \/ \E r \in 1..nFast, txs \in Histories : HistoryReturns(r, txs)
    \/ \E r \in 1..nFast : HistoryThrows(r)
    \/ \E r \in 1..nFast, series \in PriceSeries : PricesReturn(r, series)
    \/ \E r \in 1..nFast, answer \in ForecastAnswers : ForecastReturns(r, answer)
    \/ \E s \in 1..nSlow, answer \in TokenPriceAnswers : TokenPriceReturns(s, answer)
    \/ \E s \in 1..nSlow, answer \in SolPriceAnswers : SolPriceReturns(s, answer)
    \/ Tick

Spec == Init /\ [][Next]_vars

\* The scheduler together with the Read API.
NextRead ==
    \/ \E hasKey \in BOOLEAN : Startup(hasKey)
    \/ FastTimerFires
    \/ PriceTimerFires
    \/ \E r \in 1..nFast, currentSupply \in Supplies : SupplyReturns(r, currentSupply)
    \/ \E r \in 1..nFast : SupplyThrows(r)
    \/ \E r \in 1..nFast, txs \in Histories : HistoryReturns(r, txs)
    \/ \E r \in 1..nFast : HistoryThrows(r)
    \/ \E r \in 1..nFast, series \in PriceSeries : PricesReturn(r, series)
    \/ \E r \in 1..nFast, answer \in ForecastAnswers : ForecastReturns(r, answer)
    \/ \E s \in 1..nSlow, answer \in TokenPriceAnswers : TokenPriceReturns(s, answer)
    \/ \E s \in 1..nSlow, answer \in SolPriceAnswers : SolPriceReturns(s, answer)
    \/ \E route \in Routes : Serve(route)
    \/ Tick

SpecRead == Init /\ [][NextRead]_vars

\* The scheduler over ten minutes and more, every run finishing within its
\* half minute.
NextCadence ==
    \/ \E hasKey \in BOOLEAN : Startup(hasKey)
    \/ QuietFastTimerFires
    \/ PriceTimerFires
    \/ \E r \in 1..nFast, currentSupply \in Supplies : SupplyReturns(r, currentSupply)
    \/ \E r \in 1..nFast : SupplyThrows(r)
    \/ \E r \in 1..nFast, txs \in Histories : HistoryReturns(r, txs)
    \/ \E r \in 1..nFast : HistoryThrows(r)
    \/ \E r \in 1..nFast, series \in PriceSeries : PricesReturn(r, series)
    \/ \E r \in 1..nFast, answer \in ForecastAnswers : ForecastReturns(r, answer)
    \/ \E s \in 1..nSlow, answer \in TokenPriceAnswers : TokenPriceReturns(s, answer)
    \/ \E s \in 1..nSlow, answer \in SolPriceAnswers : SolPriceReturns(s, answer)
    \/ QuietTick

SpecCadence == Init /\ [][NextCadence]_vars

\* One exponentialBackoffFetch call, for every maxRetries from 1 to the default.
InitFetch ==
    /\ SchedInit
    /\ SrvUnused
    /\ \E m \in 1..DefaultMaxRetries : bf = BfIdle(m)
    /\ HistUnused /\ PgUnused /\ CalcUnused

NextFetch ==
    \/ BackoffCall
    \/ \E resp \in Responses, jitter \in Jitters : BackoffResponse(resp, jitter)
    \/ BackoffWake

SpecFetch == InitFetch /\ [][NextFetch]_vars

\* The same call when every `await` settles: the call is made, each fetch is
\* answered or rejected, and each backoff timer fires.
SpecFetchFair == SpecFetch /\ WF_vars(NextFetch)


(***************************************************************************)
(* Part 5.  Properties of exponentialBackoffFetch (under SpecFetch)        *)
(***************************************************************************)

AllNetworkErrors(n) == \A i \in 1..n : bf.resps[i].err # ""

All429(n) == \A i \in 1..n : bf.resps[i].err = "" /\ bf.resps[i].status = 429

AllRetryable(n) == \A i \in 1..n : RetryableStatus(bf.resps[i])

\* C2: when all maxRetries attempts received HTTP 429 or 5xx, the call ends by
\* raising an error that reports the attempt count, and whenever the call
\* completes normally its value is a response with ok = true.
C2_ExhaustedRetriesRaise ==
    /\ (BfEnded /\ Len(bf.resps) = bf.maxRetries /\ AllRetryable(bf.maxRetries))
          => (bf.pc = "thrown" /\ bf.result.kind = "error"
              /\ bf.result.attempts = bf.maxRetries)
    /\ bf.pc = "returned"
          => (bf.result.kind = "response"
              /\ bf.result.status >= 200 /\ bf.result.status <= 299)

\* C3: a status that is neither 2xx, 429 nor 5xx ends the call at once: it is
\* the last response received, the call has thrown an error identifying the
\* status, and no backoff delay was started after it.
C3_NonRetryableFailsAtOnce ==
    \A i \in 1..Len(bf.resps) :
        NonRetryableStatus(bf.resps[i]) =>
            /\ i = Len(bf.resps)
            /\ bf.pc = "thrown"
            /\ bf.requests = i
            /\ Len(bf.delays) = i - 1
            /\ bf.result.message.status = bf.resps[i].status

\* C4: while every attempt so far ended in a transport error the call goes on
\* until maxRetries requests were issued, and then throws an error carrying the
\* last transport error's message and the attempt count maxRetries.
C4_AllNetworkErrorsThrow ==
    LET n == Len(bf.resps) IN
    (n >= 1 /\ AllNetworkErrors(n)) =>
        /\ bf.requests <= bf.maxRetries
        /\ n < bf.maxRetries => ~BfEnded
        /\ n = bf.maxRetries =>
              /\ bf.pc = "thrown"
              /\ bf.requests = bf.maxRetries
              /\ bf.result.kind = "error"
              /\ bf.result.attempts = bf.maxRetries
              /\ bf.result.message.kind = "network"
              /\ bf.result.message.text = bf.resps[n].err

C4_Witness ==
    /\ bf.pc = "thrown"
    /\ bf.maxRetries = 5
    /\ Len(bf.resps) = 5
    /\ AllNetworkErrors(5)
    /\ bf.resps[4].err # bf.resps[5].err
    /\ bf.requests = 5

\* C5: after k < maxRetries responses that were all 429 the next request is
\* issued (request k+1), and when a 200 follows k responses 429 the call
\* returns that 200 response, k+1 requests having been issued.
C5_RateLimitedThenOk ==
    LET n == Len(bf.resps) IN
    /\ (All429(n) /\ n < bf.maxRetries) =>
          /\ ~BfEnded
          /\ bf.pc = "fetching" => bf.requests = n + 1
    /\ (n >= 1 /\ All429(n - 1) /\ bf.resps[n].err = "" /\ bf.resps[n].status = 200) =>
          /\ bf.pc = "returned"
          /\ bf.result.kind = "response"
          /\ bf.result.status = 200
          /\ bf.requests = n

C5_Witness ==
    /\ bf.pc = "returned"
    /\ bf.maxRetries = 5
    /\ Len(bf.resps) = 5
    /\ All429(4)
    /\ bf.resps[5].status = 200
    /\ bf.result.kind = "response"

\* C32: for every sequence of responses and transport errors the call issues
\* at most maxRetries requests, issues no request after a 2xx response (the
\* 2xx response is the last one received and the call has returned), and ends
\* (returns or throws) after finitely many steps.
C32_BoundedAndTerminates ==
    /\ [](bf.requests <= bf.maxRetries)
    /\ [](\A i \in 1..Len(bf.resps) :
            ResOk(bf.resps[i]) =>
                /\ i = Len(bf.resps)
                /\ bf.requests = i
                /\ bf.pc = "returned")
    /\ <>(bf.pc \in {"returned", "thrown"})

\* A call with the default limit that used every attempt, the last one after
\* four different kinds of failure, and returned the 200 response.
C32_Witness ==
    /\ bf.pc = "returned"
    /\ bf.maxRetries = DefaultMaxRetries
    /\ bf.requests = DefaultMaxRetries
    /\ bf.resps = << [err |-> "ECONNRESET", status |-> 0],
                     [err |-> "", status |-> 500],
                     [err |-> "", status |-> 404],
                     [err |-> "", status |-> 429],
                     [err |-> "", status |-> 200] >>


\* C33: the delay waited after 0-based attempt a is 2^a * 1000 ms plus a
\* jitter in [0, 500) when the attempt got HTTP 429 or 5xx, and 2^a * 500 ms
\* plus such a jitter when it got a transport error; and a delay is waited only
\* between two attempts, so never after attempt maxRetries - 1.
C33_BackoffDelays ==
    \A i \in 1..Len(bf.delays) :
        LET attempt == i - 1
            delay == bf.delays[i].ms
            resp == bf.resps[i] IN
        /\ RetryableStatus(resp) => delay - Pow2(attempt) * 1000 \in 0..499
        /\ resp.err # "" => delay - Pow2(attempt) * 500 \in 0..499
        /\ attempt < bf.maxRetries - 1


(***************************************************************************)
(* Part 6.  Properties of the cache under the two cycles                   *)
(***************************************************************************)

\* The wallet sub-record without / restricted to its two price fields.
PriceFields == {"tokenPriceUsd", "solPriceUsd"}

NonPrice(wallet) == [f \in DOMAIN wallet \ PriceFields |-> wallet[f]]

Prices(wallet) == [f \in DOMAIN wallet \cap PriceFields |-> wallet[f]]

\* The step in which fast run r ends with its catch block.
FastRunFails(r) ==
    /\ r \in DOMAIN fast
    /\ r \notin DOMAIN fast'
    /\ lastEnded' = [cycle |-> "fast", run |-> r, failed |-> TRUE]

\* C1: when a fast-cycle run ends in failure, the burn, wallet and
\* external-platform sub-records are what they were when that run began.
C1_FailedRunLeavesSubRecords ==
    [][\A r \in DOMAIN fast :
          FastRunFails(r) =>
              /\ cache'.burn = fast[r].start.burn
              /\ cache'.wallet = fast[r].start.wallet
              /\ cache'.forecast = fast[r].start.forecast]_vars

\* C6: whenever a read can be served, the burn sub-record, the non-price
\* fields of the wallet sub-record and the external-platform sub-record were
\* written by the same fast-cycle run.
C6_NoTornSubRecords ==
    CheckCachePasses =>
        (writer.burn = writer.wallet /\ writer.wallet = writer.forecast)

\* C7: once non-zero, cache.lastUpdated never decreases, whatever the
\* interleaving of the runs of the two cycles.
C7_LastUpdatedMonotone ==
    [][cache.lastUpdated # 0 => cache'.lastUpdated >= cache.lastUpdated]_vars

\* Run 2 of the fast cycle has ended, and run 1, which started before it,
\* ended after it and stamped the cache last.
C7_Witness ==
    /\ lastEnded = [cycle |-> "fast", run |-> 1, failed |-> FALSE]
    /\ nFast >= 2
    /\ 2 \notin DOMAIN fast
    /\ writer.wallet = 1
    /\ cache.lastUpdated >= DateNow(2)

\* C8: no step of a fast-cycle run, its commit included, changes
\* tokenPriceUsd or solPriceUsd.
C8_FastCommitKeepsPrices ==
    [][fast' # fast => Prices(cache'.wallet) = Prices(cache.wallet)]_vars

\* Fast run 1, which started before the first slow run, has just committed
\* after that slow run stored two positive prices, and they are still there.
C8_Witness ==
    /\ lastEnded = [cycle |-> "fast", run |-> 1, failed |-> FALSE]
    /\ writer.wallet = 1
    /\ "ctoFeesSol" \in DOMAIN cache.wallet
    /\ cache.wallet.tokenPriceUsd = 2
    /\ cache.wallet.solPriceUsd = 150

\* C9: no step of a slow-cycle run (the tick, the token price arriving, the
\* commit) changes the burn sub-record, the external-platform sub-record or a
\* wallet field other than the two prices.
C9_SlowRunFrame ==
    [][(slow' # slow \/ cacheCycleCount' # cacheCycleCount) =>
          /\ cache'.burn = cache.burn
          /\ cache'.forecast = cache.forecast
          /\ NonPrice(cache'.wallet) = NonPrice(cache.wallet)]_vars

\* The first slow run has just committed; fast run 2, which started while it
\* was suspended, committed the wallet sub-record before it did.
C9_Witness ==
    /\ lastEnded = [cycle |-> "slow", run |-> 1, failed |-> FALSE]
    /\ writer.wallet = 2
    /\ "ctoFeesSol" \in DOMAIN cache.wallet
    /\ cache.wallet.purchasedFromSource = 7
    /\ cache.wallet.tokenPriceUsd = 2

\* C10: the first fast run starts with the process; the k-th price fetch
\* starts 30 s + (k-1) * 10 min after it, on price tick 10 * (k-1); price
\* tick n comes 30 s + n min after the start; a tick whose number is no
\* multiple of 10 starts no run and writes nothing.
C10_StartupAndCadence ==
    /\ [](boot = "running" =>
            /\ nFast >= 1
            /\ priceTimer = 1 + 2 * cacheCycleCount
            /\ nSlow = (cacheCycleCount + 9) \div 10
            /\ \A s \in DOMAIN slow :
                  /\ slow[s].cycle = 10 * (s - 1)
                  /\ slow[s].startedAt = 1 + 20 * (s - 1))
    /\ [][(boot = "load" /\ boot' = "running") =>
            (now = 0 /\ 1 \in DOMAIN fast' /\ fast'[1].pc = "supply"
             /\ fast'[1].startedAt = 0)]_vars
    /\ [][(cacheCycleCount' # cacheCycleCount /\ cacheCycleCount % 10 # 0) =>
            UNCHANGED << cache, fast, nFast, slow, nSlow >>]_vars

\* The eleventh price tick (number 10) has just started the second fetch.
C10_Witness ==
    /\ cacheCycleCount = 11
    /\ nSlow = 2
    /\ 2 \in DOMAIN slow
    /\ slow[2].pc = "token"
    /\ now = 21

\* The step in which fast run r ends with its commit.
FastRunCommits(r) ==
    /\ r \in DOMAIN fast
    /\ r \notin DOMAIN fast'
    /\ lastEnded' = [cycle |-> "fast", run |-> r, failed |-> FALSE]

\* C11: whatever became of the earlier fast runs (failed, or still suspended
\* on an upstream call), fast run k+1 starts at period tick k, so the clock
\* never passes a tick whose run has not started; and a run whose steps all
\* succeed writes the burn sub-record when the supply arrives and the wallet
\* and external-platform sub-records and lastUpdated when it ends.
C11_CycleRearms ==
    /\ [](boot = "running" =>
            /\ fastTimer = FastPeriodUnits * nFast
            /\ nFast < MaxFastRuns => now <= fastTimer
            /\ \A r \in DOMAIN fast : fast[r].startedAt = FastPeriodUnits * (r - 1))
    /\ [][\A r \in DOMAIN fast :
            /\ (fast[r].pc = "supply" /\ r \in DOMAIN fast' /\ fast'[r].pc = "history")
                  => (writer'.burn = r /\ "burnedAmount" \in DOMAIN cache'.burn)
            /\ FastRunCommits(r)
                  => /\ writer'.wallet = r
                     /\ writer'.forecast = r
                     /\ cache'.wallet.ctoFeesSol
                            = extractSolReceipts(fast[r].txs, TRACKED_WALLET).totalSol
                     /\ cache'.lastUpdated = DateNow(now)]_vars

\* Fast run 1 is still suspended on an upstream call; run 2 started at the
\* next tick all the same, and has committed its three sub-records.
C11_Witness ==
    /\ 1 \in DOMAIN fast
    /\ lastEnded = [cycle |-> "fast", run |-> 2, failed |-> FALSE]
    /\ writer = [burn |-> 2, wallet |-> 2, forecast |-> 2]
    /\ cache.lastUpdated >= DateNow(FastPeriodUnits)

\* C12: when a step of a fast run throws, the run ends in its catch block: the
\* process and its timers go on, and lastUpdated becomes the time of the
\* failure; so lastUpdated is non-zero once the first fast run has ended,
\* however it ended.
C12_FailureStampsCache ==
    /\ [][\A r \in DOMAIN fast :
            FastRunFails(r) =>
                /\ cache'.lastUpdated = DateNow(now)
                /\ cache'.lastUpdated # 0
                /\ UNCHANGED << boot, fastTimer, priceTimer >>]_vars
    /\ []((nFast >= 1 /\ 1 \notin DOMAIN fast) => cache.lastUpdated # 0)

\* The first fast run has failed before any other run wrote the cache, and the
\* cache carries the time of the failure.
C12_Witness ==
    /\ lastEnded = [cycle |-> "fast", run |-> 1, failed |-> TRUE]
    /\ nSlow = 0
    /\ nFast = 1
    /\ writer.wallet = 0
    /\ cache.lastUpdated = DateNow(now)

\* C13: the burn-stats and wallet-stats routes answer 503 exactly when
\* lastUpdated is 0, which is exactly while no run of either cycle has ended;
\* once a route has answered otherwise it never answers 503 again.
C13_ColdStartOnly ==
    /\ [](/\ GetApiBurn.status = 503 <=> cache.lastUpdated = 0
          /\ GetApiWallet.status = 503 <=> cache.lastUpdated = 0
          /\ cache.lastUpdated = 0 <=> lastEnded = NoneEnded)
    /\ [][GetApiBurn.status # 503 =>
            (GetApiBurn'.status # 503 /\ GetApiWallet'.status # 503)]_vars

\* The only run that has ended is the first fast run, and it failed; both
\* routes answer 200, the burn route with the forecast zeros only.
C13_Witness ==
    /\ lastEnded = [cycle |-> "fast", run |-> 1, failed |-> TRUE]
    /\ nSlow = 0
    /\ writer = [burn |-> 0, wallet |-> 0, forecast |-> 0]
    /\ GetApiBurn.status = 200
    /\ GetApiWallet.status = 200
    /\ "burnedAmount" \notin DOMAIN GetApiBurn.body


\* The failures of a spot-price call: the fetch failed (transport error,
\* retries exhausted, non-retryable status), or the body has no price or a
\* zero price.
PriceMissing(answer) ==
    answer.failed \/ "price" \notin DOMAIN answer.body \/ answer.body.price = 0

\* C16: each spot-price call comes back with 0 on any failure and with the
\* positive price otherwise, never with an exception: whatever the token-price
\* call met, the slow run goes on to the native-asset price call, and its
\* commit stores what each of the two calls returned.
C16_SpotPricesIndependent ==
    [][\A s \in DOMAIN slow :
          /\ \A a \in TokenPriceAnswers :
                TokenPriceReturns(s, a) =>
                    /\ s \in DOMAIN slow'
                    /\ slow'[s].pc = "sol"
                    /\ slow'[s].tokenPriceUsd = IF PriceMissing(a) THEN 0 ELSE a.body.price
                    /\ PriceMissing(a) <=> slow'[s].tokenPriceUsd = 0
                    /\ slow'[s].tokenPriceUsd >= 0
          /\ \A a \in SolPriceAnswers :
                SolPriceReturns(s, a) =>
                    /\ cache'.wallet.solPriceUsd = IF PriceMissing(a) THEN 0 ELSE a.body.price
                    /\ PriceMissing(a) <=> cache'.wallet.solPriceUsd = 0
                    /\ cache'.wallet.solPriceUsd >= 0
                    /\ cache'.wallet.tokenPriceUsd = slow[s].tokenPriceUsd]_vars

\* The first slow run has ended: its token-price call failed, and the positive
\* native-asset price fetched after it is in the cache.
C16_Witness ==
    /\ lastEnded = [cycle |-> "slow", run |-> 1, failed |-> FALSE]
    /\ cache.wallet.tokenPriceUsd = 0
    /\ cache.wallet.solPriceUsd = 150
    /\ cache.lastUpdated # 0

\* C23: a fast run that succeeds with an empty transaction history commits a
\* wallet sub-record with ctoFeesSol = 0, ctoFeesUsd = 0 and
\* purchasedFromSource = 0 whose two price fields are the values cached just
\* before the commit, and the run never waits on fetchSolHistoricalPrices (so
\* it makes no historical-price request and no memo file access).
C23_EmptyHistory ==
    /\ [](\A r \in DOMAIN fast : fast[r].pc = "prices" => fast[r].txs # << >>)
    /\ [][\A r \in DOMAIN fast :
            (FastRunCommits(r) /\ fast[r].txs = << >>) =>
                cache'.wallet =
                    [ctoFeesSol |-> FracZero, ctoFeesUsd |-> FracZero,
                     purchasedFromSource |-> 0,
                     tokenPriceUsd |-> cache.wallet.tokenPriceUsd,
                     solPriceUsd |-> cache.wallet.solPriceUsd]]_vars

\* A fast run has just committed an empty history over prices that a slow run
\* had cached before.
C23_Witness ==
    /\ lastEnded.cycle = "fast"
    /\ ~lastEnded.failed
    /\ cache.wallet = [ctoFeesSol |-> FracZero, ctoFeesUsd |-> FracZero,
                       purchasedFromSource |-> 0,
                       tokenPriceUsd |-> 2, solPriceUsd |-> 150]


\* C24: for every current supply the token-supply RPC returns, the fast run
\* stores burnedAmount = 1000000000 - currentSupply and burnedPercent =
\* burnedAmount / 1000000000 * 100 (that is, burnedPercent * 10^7 =
\* burnedAmount) together with currentSupply in the burn sub-record; for
\* 400000000 these are 600000000 and 60.
C24_BurnArithmetic ==
    [][\A r \in DOMAIN fast, currentSupply \in Supplies :
            SupplyReturns(r, currentSupply) =>
                /\ DOMAIN cache'.burn = {"burnedAmount", "currentSupply", "burnedPercent"}
                /\ cache'.burn.currentSupply = currentSupply
                /\ cache'.burn.burnedAmount = 1000000000 - currentSupply
                /\ cache'.burn.burnedPercent * 10000000 = cache'.burn.burnedAmount
                /\ (currentSupply = 400000000 =>
                        /\ cache'.burn.burnedAmount = 600000000
                        /\ cache'.burn.burnedPercent = 60)]_vars

\* A run has stored the burn sub-record of a supply of 400000000.
C24_Witness ==
    /\ writer.burn # 0
    /\ cache.burn = [burnedAmount |-> 600000000, currentSupply |-> 400000000,
                     burnedPercent |-> 60]


\* C25: a stuck upstream call blocks nothing else.  While a fast run is
\* suspended on an upstream call, every route can be answered, and is answered
\* from the cache as it stands (503 only from the gated routes while
\* lastUpdated is 0); a price tick that is due can fire, a slow run can take
\* its steps and commit; and a fast tick that is due can start a later run.
C25_StuckCallBlocksNothing ==
    /\ [](DOMAIN fast # {} =>
            /\ \A route \in Routes : ENABLED Serve(route)
            /\ (now = priceTimer /\ (TickFetches(cacheCycleCount) => nSlow < MaxSlowRuns))
                    => ENABLED PriceTimerFires
            /\ \A s \in DOMAIN slow :
                    /\ slow[s].pc = "token" =>
                        \A answer \in TokenPriceAnswers : ENABLED TokenPriceReturns(s, answer)
                    /\ slow[s].pc = "sol" =>
                        \A answer \in SolPriceAnswers : ENABLED SolPriceReturns(s, answer)
            /\ (now = fastTimer /\ nFast < MaxFastRuns) => ENABLED FastTimerFires)
    /\ [][\A route \in Routes :
            (DOMAIN fast # {} /\ Serve(route)) =>
                served'.status = IF route # "/" /\ cache.lastUpdated = 0
                                 THEN 503 ELSE 200]_vars

\* The first fast run is still waiting for the supply at the second fast tick;
\* meanwhile the slow run has committed its prices, a second fast run has
\* started, and wallet-stats has been answered 200.
C25_Witness ==
    /\ 1 \in DOMAIN fast
    /\ fast[1].pc = "supply"
    /\ now = FastPeriodUnits
    /\ 2 \in DOMAIN fast
    /\ lastEnded.cycle = "slow"
    /\ cache.wallet.tokenPriceUsd = 2
    /\ served = [route |-> "/api/wallet", status |-> 200]

\* C26: when HELIUS_API_KEY is absent at startup the process exits before any
\* cycle run starts, before any timer is armed and before the server listens:
\* in the exited process no run was ever started (so no upstream request was
\* issued), the timers and the cache are as at load, no request was answered,
\* and nothing happens afterwards.
C26_NoKeyNoStart ==
    /\ [](boot = "exited" =>
            /\ nFast = 0 /\ fast = NoRuns
            /\ nSlow = 0 /\ slow = NoRuns
            /\ cacheCycleCount = 0
            /\ fastTimer = 0 /\ priceTimer = 0
            /\ cache = InitialCache
            /\ served = NoResponse)
    /\ [][boot = "exited" => UNCHANGED vars]_vars
    /\ [][Startup(FALSE) => boot' = "exited"]_vars

\* The process has exited at the credential check.
C26_Witness ==
    /\ boot = "exited"
    /\ now = 0

\* A step of a fetchAndCacheData run or of a fetchTokenPriceStaggered run that
\* assigns to the cache.
CycleWrites ==
    \/ \E r \in DOMAIN fast, currentSupply \in Supplies : SupplyReturns(r, currentSupply)
    \/ \E r \in DOMAIN fast : SupplyThrows(r) \/ HistoryThrows(r)
    \/ \E r \in DOMAIN fast, answer \in ForecastAnswers : ForecastReturns(r, answer)
    \/ \E s \in DOMAIN slow, answer \in SolPriceAnswers : SolPriceReturns(s, answer)

\* C27: no request on the health, burn-stats or wallet-stats route changes the
\* cache (burn, wallet, forecast and lastUpdated are as before the request),
\* and every step that changes the cache is a step of a fetchAndCacheData run
\* or of a fetchTokenPriceStaggered run.
C27_ReadsNeverWrite ==
    /\ [][\A route \in Routes : Serve(route) => cache' = cache]_vars
    /\ [][served' # served => cache' = cache]_vars
    /\ [][cache' # cache => CycleWrites]_vars

\* A burn-stats request has been answered 200 from a cache that a fast run
\* filled, and the cache is still as that run left it.
C27_Witness ==
    /\ served.route = "/api/burn"
    /\ served.status = 200
    /\ "burnedAmount" \in DOMAIN cache.burn
    /\ "ctoFeesSol" \in DOMAIN cache.wallet


\* C28: once a positive token or native-asset price is cached, a later slow
\* run whose fetch of that price fails (the native-asset fetch answers with a
\* failure; the token fetch hands back 0, as it does on failure) leaves the
\* cached price at its previous value.
C28_StalePriceKept ==
    [][\A s \in DOMAIN slow, answer \in SolPriceAnswers :
            SolPriceReturns(s, answer) =>
                /\ (answer.failed /\ cache.wallet.solPriceUsd > 0) =>
                        cache'.wallet.solPriceUsd = cache.wallet.solPriceUsd
                /\ (slow[s].tokenPriceUsd = 0 /\ cache.wallet.tokenPriceUsd > 0) =>
                        cache'.wallet.tokenPriceUsd = cache.wallet.tokenPriceUsd]_vars


\* C29: when the external platform's stats fetch fails in a fast run after an
\* earlier run cached non-zero stats, the forecast sub-record, which burn-stats
\* spreads into its answer, still holds the previously cached values.
C29_StaleStatsKept ==
    [][\A r \in DOMAIN fast, answer \in ForecastAnswers :
            (ForecastReturns(r, answer) /\ answer.failed
                /\ cache.forecast # ZeroForecast) =>
                    cache'.forecast = cache.forecast]_vars


\* C30: whenever burn-stats or wallet-stats answers 200, the cache has been
\* populated by a successful fast run: the burn sub-record has burnedAmount,
\* currentSupply and burnedPercent, and the wallet sub-record has ctoFeesSol,
\* ctoFeesUsd and purchasedFromSource; also when the first fast run fails and
\* when the first slow run finishes before the first fast run.
C30_OkMeansPopulated ==
    (GetApiBurn.status = 200 \/ GetApiWallet.status = 200) =>
        /\ {"burnedAmount", "currentSupply", "burnedPercent"} \subseteq DOMAIN cache.burn
        /\ {"ctoFeesSol", "ctoFeesUsd", "purchasedFromSource"} \subseteq DOMAIN cache.wallet


\* C31: overlapping fast runs do not regress the cache.  When run A commits
\* after a run B that started later has already committed (writer.wallet is
\* then B's number), both have succeeded and finished, so the non-price wallet
\* fields and the external-platform sub-record must still hold B's values.
C31_NoRegression ==
    [][\A a \in DOMAIN fast :
            (FastRunCommits(a) /\ writer.wallet > a) =>
                /\ NonPrice(cache'.wallet) = NonPrice(cache.wallet)
                /\ cache'.forecast = cache.forecast]_vars


\* C37: in every reachable state, under every interleaving of fast and slow
\* runs, the wallet sub-record has both tokenPriceUsd and solPriceUsd, each a
\* number that is 0 (unknown) or positive.
C37_PriceFieldsDefined ==
    /\ {"tokenPriceUsd", "solPriceUsd"} \subseteq DOMAIN cache.wallet
    /\ cache.wallet.tokenPriceUsd \in Nat
    /\ cache.wallet.solPriceUsd \in Nat

\* A fast run that started before the slow run committed has replaced the
\* wallet sub-record after it: the five fields are there, with the slow run's
\* prices.
C37_Witness ==
    /\ lastEnded = [cycle |-> "fast", run |-> 1, failed |-> FALSE]
    /\ nSlow = 1 /\ slow = NoRuns
    /\ DOMAIN cache.wallet = {"ctoFeesSol", "ctoFeesUsd", "purchasedFromSource",
                              "tokenPriceUsd", "solPriceUsd"}
    /\ cache.wallet.tokenPriceUsd = 2
    /\ cache.wallet.solPriceUsd = 0
    /\ cache.wallet.purchasedFromSource = 7


\* C38: a failed stats fetch or an absent stats field does not abort the fast
\* run: the run that gets the stats answer ends with its commit, after which
\* the burn sub-record and the wallet sub-record of this run and the stamp of
\* this moment are in the cache, and the external-platform sub-record has all
\* four fields, each missing one as 0.
C38_StatsFailureTolerated ==
    [][\A r \in DOMAIN fast, answer \in ForecastAnswers :
            ForecastReturns(r, answer) =>
                /\ FastRunCommits(r)
                /\ {"burnedAmount", "currentSupply", "burnedPercent"}
                        \subseteq DOMAIN cache'.burn
                /\ {"ctoFeesSol", "ctoFeesUsd", "purchasedFromSource"}
                        \subseteq DOMAIN cache'.wallet
                /\ writer'.wallet = r
                /\ cache'.lastUpdated = DateNow(now)
                /\ DOMAIN cache'.forecast =
                        {"totalVolume", "totalFees", "totalWinnings", "totalLifetimeUsers"}
                /\ \A f \in DOMAIN cache'.forecast :
                        cache'.forecast[f] =
                            IF answer.failed \/ f \notin DOMAIN answer.platformStats
                            THEN 0 ELSE answer.platformStats[f]]_vars

\* The first run has committed although its stats fetch failed: wallet data
\* and stamp are there, the four stats are 0.
C38_Witness ==
    /\ lastEnded = [cycle |-> "fast", run |-> 1, failed |-> FALSE]
    /\ writer = [burn |-> 1, wallet |-> 1, forecast |-> 1]
    /\ cache.forecast = ZeroForecast
    /\ cache.wallet.purchasedFromSource = 7
    /\ cache.lastUpdated = DateNow(now)


(***************************************************************************)
(* Part 7.  fetchSolHistoricalPrices(fromSec, toSec) and its memo file     *)
(***************************************************************************)

\* Freshness window of the memo file, in ms.
HISTORICAL_CACHE_DURATION_MS == 6 * 60 * 60 * 1000

\* The clock of this part moves in steps of half the freshness window.
HistStep == HISTORICAL_CACHE_DURATION_MS \div 2

\* Number of clock steps and of successive calls followed.
MaxHistSteps == 3
MaxHistCalls == 3

\* null, and a value that is not null.
Null == [null |-> TRUE]
Some(v) == [null |-> FALSE, value |-> v]

\* JSON.stringify(value) and JSON.parse(text).  A text is either the encoding
\* of a value or not JSON at all; parsing the latter throws.
JSONstringify(value) == [json |-> TRUE, of |-> value]
NotJson == [json |-> FALSE]
JSONparses(text) == text.json
JSONparse(text) == text.of

\* The [tMs, price] pairs of two market_chart/range bodies.
PairsA == << << 100000, 20 >> >>
PairsB == << << 100000, 25 >>, << 200000, 30 >> >>

\* What the upstream price-history request may end with: a failure of
\* exponentialBackoffFetch, a body without `prices`, or a body with pairs.
HistAnswers ==
    { [failed |-> TRUE, body |-> EmptyObject],
      [failed |-> FALSE, body |-> EmptyObject],
      [failed |-> FALSE, body |-> [prices |-> PairsA]],
      [failed |-> FALSE, body |-> [prices |-> PairsB]] }

\* json.prices.map(([tMs, price]) => ({ tMs: Number(tMs), priceUsd: Number(price) }))
ToPoints(pairs) ==
    [i \in 1..Len(pairs) |-> [tMs |-> pairs[i][1], priceUsd |-> pairs[i][2]]]

\* No file at the memo path.
NoFile == [exists |-> FALSE]

MemoFile(text, mtimeMs) == [exists |-> TRUE, text |-> text, mtimeMs |-> mtimeMs]

\* The memo path when the process starts: nothing, or a file an earlier process
\* left, written just now or a full window ago, whole or cut short.
InitialFiles ==
    {NoFile} \cup
    { MemoFile(text, mtimeMs) :
        text \in {JSONstringify(ToPoints(PairsA)), NotJson},
        mtimeMs \in {0, 0 - HISTORICAL_CACHE_DURATION_MS} }

\* A freshness test that also accepts a file exactly one window old.
MemoFreshInclusive(nowMs, mtimeMs) == nowMs - mtimeMs <= HISTORICAL_CACHE_DURATION_MS

\* Date.now() - stats.mtimeMs < HISTORICAL_CACHE_DURATION_MS
MemoFresh(nowMs, mtimeMs) == nowMs - mtimeMs < HISTORICAL_CACHE_DURATION_MS

\* cachedData || []
OrEmpty(cachedData) == IF cachedData = Null THEN << >> ELSE cachedData.value

NoSeen == [exists |-> FALSE, ageMs |-> 0]

\* The pad of one hour, in seconds, on both ends of the requested range.
PadSec == 3600

\* The arguments (fromSec, toSec) a call may get: the oldest and the newest
\* receipt time.  The third range is the second one widened by a newer
\* receipt; the first reaches back to less than an hour after the epoch.
HistRanges ==
    { [fromSec |-> 1000, toSec |-> 5000],
      [fromSec |-> 5000, toSec |-> 5000],
      [fromSec |-> 5000, toSec |-> 20000] }

\* Math.max(0, fromSec - 3600) and toSec + 3600
RequestRange(fromSec, toSec) ==
    [from |-> IF fromSec - PadSec > 0 THEN fromSec - PadSec ELSE 0,
     to |-> toSec + PadSec]

NoRange == [from |-> 0, to |-> 0]

\* The call's arguments and locals (cachedData, prices), the range of its
\* upstream request, its position and result, and as history what each await
\* of the call met.
HistCallStart ==
    [pc |-> "stat", fromSec |-> 0, toSec |-> 0, request |-> NoRange,
     cachedData |-> Null, prices |-> << >>, result |-> Null,
     requests |-> 0, statSeen |-> NoSeen, readSeen |-> "", fetchSeen |-> "",
     writeSeen |-> ""]

\* fileRange is history: the range the series in the file was requested for;
\* a file left by an earlier process was requested for the one-receipt range.
HistIdle(file) ==
    [clock |-> 0, file |-> file, calls |-> 0,
     fileRange |-> IF file.exists THEN RequestRange(5000, 5000) ELSE NoRange,
     call |-> [HistCallStart EXCEPT !.pc = "idle"]]

\* fetchSolHistoricalPrices(fromSec, toSec) is called and suspends on fs.stat.
HistCall(fromSec, toSec) ==
    /\ hist.call.pc \in {"idle", "done"}
    /\ hist.calls < MaxHistCalls
    /\ hist' = [hist EXCEPT !.calls = @ + 1,
                    !.call = [HistCallStart EXCEPT !.fromSec = fromSec,
                                                   !.toSec = toSec]]
    /\ UNCHANGED << schedVars, served, srv, bf, pg, calc >>

\* The catch of the first try, then the upstream request is issued.
HistGoFetch(call) ==
    [call EXCEPT !.pc = "fetch", !.requests = @ + 1,
                 !.request = RequestRange(call.fromSec, call.toSec)]

\* fs.stat settles: it rejects when there is no file; a fresh file is read, a
\* stale one is passed over and the upstream request is issued.
HistStatReturns ==
    /\ hist.call.pc = "stat"
    /\ hist' = [hist EXCEPT !.call =
          IF ~hist.file.exists
          THEN HistGoFetch([@ EXCEPT !.statSeen = NoSeen])
          ELSE LET seen == [exists |-> TRUE,
                            ageMs |-> hist.clock - hist.file.mtimeMs] IN
               IF MemoFresh(hist.clock, hist.file.mtimeMs)
               THEN [@ EXCEPT !.pc = "read", !.statSeen = seen]
               ELSE HistGoFetch([@ EXCEPT !.statSeen = seen])]
    /\ UNCHANGED << schedVars, served, srv, bf, pg, calc >>

\* fs.readFile settles: a readable text that parses is assigned to cachedData
\* and returned; a rejection or a parse error is caught and the upstream
\* request is issued.
HistReadReturns(readable) ==
    /\ hist.call.pc = "read"
    /\ hist' = [hist EXCEPT !.call =
          IF ~readable \/ ~hist.file.exists
          THEN HistGoFetch([@ EXCEPT !.readSeen = "unreadable"])
          ELSE IF ~JSONparses(hist.file.text)
          THEN HistGoFetch([@ EXCEPT !.readSeen = "unparseable"])
          ELSE [@ EXCEPT !.pc = "done", !.readSeen = "ok",
                         !.cachedData = Some(JSONparse(hist.file.text)),
                         !.result = Some(JSONparse(hist.file.text))]]
    /\ UNCHANGED << schedVars, served, srv, bf, pg, calc >>

\* The upstream request settles: with pairs, the points are built and the call
\* suspends on fs.writeFile; a failed fetch or a body without `prices` is
\* caught and cachedData || [] is returned.
HistFetchReturns(answer) ==
    /\ hist.call.pc = "fetch"
    /\ hist' = [hist EXCEPT !.call =
          IF answer.failed \/ "prices" \notin DOMAIN answer.body
          THEN [@ EXCEPT !.pc = "done", !.fetchSeen = "failed",
                         !.result = Some(OrEmpty(hist.call.cachedData))]
          ELSE [@ EXCEPT !.pc = "write", !.fetchSeen = "ok",
                         !.prices = ToPoints(answer.body.prices)]]
    /\ UNCHANGED << schedVars, served, srv, bf, pg, calc >>

\* fs.writeFile settles: the file now holds the points and they are returned;
\* a rejection is caught like a failed fetch.
HistWriteReturns(written) ==
    /\ hist.call.pc = "write"
    /\ hist' = IF written
               THEN [hist EXCEPT
                        !.file = MemoFile(JSONstringify(hist.call.prices), hist.clock),
                        !.fileRange = hist.call.request,
                        !.call = [@ EXCEPT !.pc = "done", !.writeSeen = "ok",
                                           !.result = Some(hist.call.prices)]]
               ELSE [hist EXCEPT
                        !.call = [@ EXCEPT !.pc = "done", !.writeSeen = "failed",
                                           !.result = Some(OrEmpty(hist.call.cachedData))]]
    /\ UNCHANGED << schedVars, served, srv, bf, pg, calc >>

\* Half a freshness window passes.
HistTick ==
    /\ hist.clock < MaxHistSteps * HistStep
    /\ hist' = [hist EXCEPT !.clock = @ + HistStep]
    /\ UNCHANGED << schedVars, served, srv, bf, pg, calc >>

InitHist ==
    /\ SchedInit
    /\ SrvUnused
    /\ bf = BfIdle(DefaultMaxRetries)
    /\ \E file \in InitialFiles : hist = HistIdle(file)
    /\ PgUnused /\ CalcUnused

NextHist ==
    \/ \E range \in HistRanges : HistCall(range.fromSec, range.toSec)
    \/ HistStatReturns
    \/ \E readable \in BOOLEAN : HistReadReturns(readable)
    \/ \E answer \in HistAnswers : HistFetchReturns(answer)
    \/ \E written \in BOOLEAN : HistWriteReturns(written)
    \/ HistTick

\* Successive calls of fetchSolHistoricalPrices over one and a half windows.
SpecHist == InitHist /\ [][NextHist]_vars

\* The call under study has returned.
HistDone == hist.call.pc = "done"

\* The memo file holds a series.
MemoHolds == hist.file.exists /\ JSONparses(hist.file.text)

\* C14: when the memo file exists but is a full window old or older and the
\* upstream fetch fails, the call returns the series in the file; after a
\* failed fetch it returns the empty series only when the file holds no series.
C14_StaleFallback ==
    /\ (HistDone /\ hist.call.fetchSeen = "failed" /\ MemoHolds)
          => hist.call.result = Some(JSONparse(hist.file.text))
    /\ (HistDone /\ hist.call.fetchSeen = "failed" /\ hist.call.result = Some(<< >>))
          => ~MemoHolds

\* What fs.stat showed the call: a file younger than the freshness window.
SawYoungFile ==
    hist.call.statSeen.exists /\ hist.call.statSeen.ageMs < HISTORICAL_CACHE_DURATION_MS

\* C15: a call that found the file younger than 6 hours and readable returns
\* the file's content and issues no upstream request; a call that found it
\* missing, 6 hours old or older, unreadable or unparseable issues one; when
\* the fetch succeeds and the file is written, the file holds the fetched
\* series, stamped with the time of the write, and the call returns that
\* series; and nothing else ever changes the file, so that is what later calls
\* inside the window return.
C15_Memoization ==
    /\ []((HistDone /\ SawYoungFile /\ hist.call.readSeen = "ok") =>
            /\ hist.call.result = Some(JSONparse(hist.file.text))
            /\ hist.call.requests = 0)
    /\ []((hist.call.pc \notin {"idle", "stat"}
           /\ (~SawYoungFile \/ hist.call.readSeen \in {"unreadable", "unparseable"}))
            => hist.call.requests = 1)
    /\ []((HistDone /\ hist.call.fetchSeen = "ok" /\ hist.call.writeSeen = "ok") =>
            /\ MemoHolds
            /\ JSONparse(hist.file.text) = hist.call.prices
            /\ hist.call.result = Some(hist.call.prices))
    /\ [][hist'.file # hist.file =>
            /\ hist.call.pc = "write"
            /\ hist'.file = MemoFile(JSONstringify(hist.call.prices), hist.clock)]_vars

\* A later call has returned, without an upstream request, the two-point
\* series that an earlier call fetched and wrote to the file.
C15_Witness ==
    /\ HistDone
    /\ hist.calls >= 2
    /\ hist.call.requests = 0
    /\ hist.call.readSeen = "ok"
    /\ hist.call.result = Some(ToPoints(PairsB))
    /\ hist.clock > hist.file.mtimeMs


\* C36: a successful upstream fetch is always returned to the caller: when
\* the fetch succeeded, the call returns the fetched series, also when writing
\* the memo file failed.
C36_FetchedSeriesReturned ==
    (HistDone /\ hist.call.fetchSeen = "ok") =>
        hist.call.result = Some(hist.call.prices)


\* C35: the series a call returns covers the range asked for in that call.
\* An upstream request asks for [max(0, fromSec - 3600), toSec + 3600]; and a
\* series served from the memo file was requested for a range that includes
\* the range of the current call.
C35_RangeCovered ==
    /\ hist.call.requests > 0 =>
          /\ hist.call.request.from =
                (IF hist.call.fromSec >= 3600 THEN hist.call.fromSec - 3600 ELSE 0)
          /\ hist.call.request.to = hist.call.toSec + 3600
    /\ (HistDone /\ hist.call.readSeen = "ok") =>
          /\ hist.fileRange.from <= hist.call.fromSec
          /\ hist.fileRange.to >= hist.call.toSec


(***************************************************************************)
(* Part 8.  fetchAllEnhancedTransactions(address, maxPages)                *)
(***************************************************************************)

\* Default of the maxPages parameter.
DefaultMaxPages == 20

\* Values of maxPages the call is studied with.
PageCaps == {1, 2, DefaultMaxPages}

\* A page shorter than this is taken to be the last one.
FullPage == 90

\* Lengths of the arrays a page request may be answered with; the API hands
\* out up to 100 transactions a page.
PageLens == {0, 1, 89, 90, 100}

\* Number of pages of more than FullPage transactions followed in one call.
MaxLargePages == 2

\* undefined, as the cursor of the first request and as a missing signature.
NoSignature == 0

\* The body of the k-th page: not an array, or an array of len transactions,
\* the k-th page's own, whose last one carries a signature or none.  The
\* signature of the last transaction of page k is written k.
NotArray(k) == [array |-> FALSE, page |-> k, len |-> 0, signature |-> NoSignature]

Batch(k, len, signed) ==
    [array |-> TRUE, page |-> k, len |-> len,
     signature |-> IF signed /\ len > 0 THEN k ELSE NoSignature]

PageAnswers(k) ==
    {NotArray(k)} \cup {Batch(k, len, signed) : len \in PageLens, signed \in BOOLEAN}

\* !Array.isArray(batch) || batch.length === 0
PageEmpty(batch) == ~batch.array \/ batch.len = 0

\* A last-page test that also stops on a page of exactly FullPage.
PageIsLastInclusive(batch) == batch.signature = NoSignature \/ batch.len <= FullPage

\* !last || !last.signature || batch.length < 90
PageIsLast(batch) == batch.signature = NoSignature \/ batch.len < FullPage

\* A cursor that stays at the first page's last signature.
FirstCursor(before, batch) == IF before = NoSignature THEN batch.signature ELSE before

\* before = last.signature
NextCursor(before, batch) == batch.signature

\* all.push(...batch): the transactions of the page, in order, after those of
\* the earlier pages.  A page's transactions are kept as one segment.
Push(all, batch) == Append(all, [page |-> batch.page, len |-> batch.len])

PgIdle(maxPages) ==
    [pc |-> "idle", maxPages |-> maxPages, page |-> 0, before |-> NoSignature,
     all |-> << >>, cursors |-> << >>, batches |-> << >>, large |-> 0,
     result |-> << >>]

\* The head of the for loop: the request of the next page is issued with the
\* cursor, or the loop is over and `all` is returned.
PgLoop(p) ==
    IF p.page < p.maxPages
    THEN [p EXCEPT !.pc = "fetching", !.cursors = Append(@, p.before)]
    ELSE [p EXCEPT !.pc = "returned", !.result = p.all]

\* The call, up to the first page request.
PgCall ==
    /\ pg.pc = "idle"
    /\ pg' = PgLoop(pg)
    /\ UNCHANGED << schedVars, served, srv, bf, hist, calc >>

\* A page arrives: the rest of the loop body, and the next request or the
\* return.
PgPageReturns(batch) ==
    /\ pg.pc = "fetching"
    /\ batch.len > FullPage => pg.large < MaxLargePages
    /\ LET got == [pg EXCEPT !.batches = Append(@, batch),
                             !.large = IF batch.len > FullPage THEN @ + 1 ELSE @]
       IN pg' = IF PageEmpty(batch)
                THEN [got EXCEPT !.pc = "returned", !.result = got.all]
                ELSE LET pushed == [got EXCEPT !.all = Push(@, batch)] IN
                     IF PageIsLast(batch)
                     THEN [pushed EXCEPT !.pc = "returned", !.result = pushed.all]
                     ELSE PgLoop([pushed EXCEPT
                                    !.before = NextCursor(@, batch),
                                    !.page = @ + 1])
    /\ UNCHANGED << schedVars, served, srv, bf, hist, calc >>

\* A call that answers a failed page with the pages gathered so far.
PgPageThrowsKeepsPages ==
    /\ pg.pc = "fetching"
    /\ pg' = [pg EXCEPT !.pc = "returned", !.result = pg.all]
    /\ UNCHANGED << schedVars, served, srv, bf, hist, calc >>

\* exponentialBackoffFetch throws on a page (or res.json() does): the call
\* throws.
PgPageThrows ==
    /\ pg.pc = "fetching"
    /\ pg' = [pg EXCEPT !.pc = "thrown"]
    /\ UNCHANGED << schedVars, served, srv, bf, hist, calc >>

InitPages ==
    /\ SchedInit
    /\ SrvUnused
    /\ bf = BfIdle(DefaultMaxRetries)
    /\ HistUnused /\ CalcUnused
    /\ \E maxPages \in PageCaps : pg = PgIdle(maxPages)

NextPages ==
    \/ PgCall
    \/ \E batch \in PageAnswers(Len(pg.batches) + 1) : PgPageReturns(batch)
    \/ PgPageThrows

\* One fetchAllEnhancedTransactions call.
SpecPages == InitPages /\ [][NextPages]_vars

\* C17: the request for page n+1 is issued if and only if page n was an array
\* of at least 90 transactions whose last one has a signature and n is less
\* than maxPages; so the call stops after the first page that is short, empty,
\* not an array or without a last signature, and after maxPages (20) pages
\* even when all are full.  A call that has returned has no request pending.
C17_ContinuationRule ==
    /\ \A n \in 1..Len(pg.batches) :
          Len(pg.cursors) > n
              <=> /\ pg.batches[n].array
                  /\ pg.batches[n].len >= 90
                  /\ pg.batches[n].signature # NoSignature
                  /\ n < pg.maxPages
    /\ Len(pg.cursors) <= pg.maxPages
    /\ pg.pc = "returned" => Len(pg.cursors) = Len(pg.batches)

\* Twenty pages were requested and every one of them was full and signed; the
\* call has returned without asking for a twenty-first.
C17_Witness ==
    /\ pg.pc = "returned"
    /\ pg.maxPages = 20
    /\ Len(pg.batches) = 20
    /\ \A n \in 1..20 : pg.batches[n].len >= 90 /\ pg.batches[n].signature # NoSignature
    /\ Len(pg.result) = 20

\* The segments of the array pages received, in request order.
RECURSIVE ArrayPages(_)
ArrayPages(batches) ==
    IF batches = << >> THEN << >>
    ELSE IF Head(batches).array /\ Head(batches).len > 0
    THEN << [page |-> Head(batches).page, len |-> Head(batches).len] >>
         \o ArrayPages(Tail(batches))
    ELSE ArrayPages(Tail(batches))

\* C18: the first request carries no cursor; every later request carries the
\* signature of the last transaction of the page received just before it; and
\* the returned sequence is the transactions of all array pages received, in
\* request order, the page on which the loop stopped included.
C18_CursorAndOrder ==
    /\ \A n \in 1..Len(pg.cursors) :
          pg.cursors[n] = IF n = 1 THEN NoSignature ELSE pg.batches[n - 1].signature
    /\ \A n \in 2..Len(pg.cursors) : pg.cursors[n] = n - 1
    /\ pg.pc = "returned" =>
          /\ pg.result = ArrayPages(pg.batches)
          /\ \A i \in 1..Len(pg.result) : pg.result[i].page = i

\* Three pages were received; the third is full but its last transaction has
\* no signature, and the result ends with it.
C18_Witness ==
    /\ pg.pc = "returned"
    /\ Len(pg.batches) = 3
    /\ pg.cursors = << NoSignature, 1, 2 >>
    /\ pg.batches[3].len = 100
    /\ pg.batches[3].signature = NoSignature
    /\ pg.result = << [page |-> 1, len |-> 90], [page |-> 2, len |-> 90],
                      [page |-> 3, len |-> 100] >>


\* The first fetchAndCacheData run with its history fetched page by page: the
\* run's `await fetchAllEnhancedTransactions(TRACKED_WALLET)` is the call pg,
\* made with the default maxPages.
InitRunPages ==
    /\ SchedInit
    /\ SrvUnused
    /\ bf = BfIdle(DefaultMaxRetries)
    /\ HistUnused /\ CalcUnused
    /\ pg = PgIdle(DefaultMaxPages)

\* The run reaches the history step and makes the call.
RunCallsPages ==
    /\ 1 \in DOMAIN fast
    /\ fast[1].pc = "history"
    /\ PgCall

\* The call returns `all` to the run: an empty history when no page was
\* pushed, else a history with transactions.
PagesReturnToRun ==
    /\ pg.pc = "returned"
    /\ \E txs \in Histories :
          /\ txs = << >> <=> pg.result = << >>
          /\ HistoryReturns(1, txs)

\* The call has thrown: the run's await throws.
PagesThrowToRun ==
    /\ pg.pc = "thrown"
    /\ HistoryThrows(1)

NextRunPages ==
    \/ \E hasKey \in BOOLEAN : Startup(hasKey)
    \/ \E currentSupply \in Supplies : SupplyReturns(1, currentSupply)
    \/ SupplyThrows(1)
    \/ RunCallsPages
    \/ \E batch \in PageAnswers(Len(pg.batches) + 1) : PgPageReturns(batch)
    \/ PgPageThrows
    \/ PagesReturnToRun
    \/ PagesThrowToRun
    \/ \E series \in PriceSeries : PricesReturn(1, series)
    \/ \E answer \in ForecastAnswers : ForecastReturns(1, answer)

SpecRunPages == InitRunPages /\ [][NextRunPages]_vars

\* C34: the wallet sub-record is never computed from a history truncated by a
\* failed page.  When the fetch of a page fails, fetchAllEnhancedTransactions
\* throws and returns nothing, whatever pages it has gathered; the run whose
\* call has thrown never goes on to the prices or the stats, and the wallet
\* sub-record is never replaced after a failed page.
C34_NoTruncatedHistory ==
    /\ [][PgPageThrows => (pg'.pc = "thrown" /\ pg'.result = << >>)]_vars
    /\ [](pg.pc = "thrown" =>
            /\ pg.result = << >>
            /\ \A r \in DOMAIN fast : fast[r].pc = "history" /\ fast[r].txs = << >>
            /\ writer.wallet = 0
            /\ cache.wallet = InitialCache.wallet)
    /\ [][PagesThrowToRun =>
            (cache'.wallet = cache.wallet /\ DOMAIN fast' = {}
             /\ lastEnded'.failed)]_vars

\* The third page request failed after two full pages were gathered; the run
\* has ended in its catch block and the wallet sub-record is as at load.
C34_Witness ==
    /\ pg.pc = "thrown"
    /\ Len(pg.all) = 2
    /\ lastEnded = [cycle |-> "fast", run |-> 1, failed |-> TRUE]
    /\ cache.lastUpdated # 0
    /\ cache.wallet = InitialCache.wallet


(***************************************************************************)
(* Part 9.  The derivation functions applied to enumerated inputs          *)
(***************************************************************************)

\* Longest nativeTransfers list of a transaction and longest price series
\* drawn as input.
MaxTransfers == 2
MaxSeriesLen == 3

OTHER_ACCOUNT == "otherAccount"

\* Native transfers as the history API may list them: to the tracked wallet
\* without an amount, with a negative, zero or positive amount, and to another
\* account.
Transfers ==
    { [toUserAccount |-> TRACKED_WALLET] } \cup
    { [toUserAccount |-> TRACKED_WALLET, amount |-> a] : a \in {0 - 5, 0, 3, 4} } \cup
    { [toUserAccount |-> OTHER_ACCOUNT, amount |-> 3] }

TransferLists == UNION { [1..n -> Transfers] : n \in 0..MaxTransfers }

\* The i-th transaction of a history: without a nativeTransfers field, or with
\* a list of transfers.
TxsAt(i) ==
    { [timestamp |-> 100 * i, signature |-> "sig"] } \cup
    { Tx(100 * i, natives, << >>, "sig") : natives \in TransferLists }

\* Histories of up to two transactions.
TxLists ==
    { << >> } \cup { << a >> : a \in TxsAt(1) }
        \cup { << a, b >> : a \in TxsAt(1), b \in TxsAt(2) }

\* Points and targets for nearestPrice; the targets lie on, between and
\* outside the points' times.
Points == { [tMs |-> t, priceUsd |-> p] : t \in {1000, 2000, 3000}, p \in {10, 20, 30} }

SeriesInputs == UNION { [1..n -> Points] : n \in 1..MaxSeriesLen }

Targets == {500, 1000, 1500, 2500, 4000}

\* An application of extractSolReceipts / nearestPrice about to be evaluated.
ExtractInput(transactions) ==
    [pc |-> "input", fn |-> "extractSolReceipts", transactions |-> transactions,
     out |-> EmptyObject]

NearestInput(priceSeries, targetMs) ==
    [pc |-> "input", fn |-> "nearestPrice", priceSeries |-> priceSeries,
     targetMs |-> targetMs, out |-> EmptyObject]

\* extractSolReceipts(transactions, TRACKED_WALLET) is evaluated.
CalcExtract ==
    /\ calc.pc = "input"
    /\ calc.fn = "extractSolReceipts"
    /\ calc' = [calc EXCEPT !.pc = "output",
                    !.out = extractSolReceipts(calc.transactions, TRACKED_WALLET)]
    /\ UNCHANGED << schedVars, served, srv, bf, hist, pg >>

\* nearestPrice(targetMs) is evaluated on a non-empty series.
CalcNearest ==
    /\ calc.pc = "input"
    /\ calc.fn = "nearestPrice"
    /\ calc' = [calc EXCEPT !.pc = "output",
                    !.out = nearestPrice(calc.priceSeries, calc.targetMs)]
    /\ UNCHANGED << schedVars, served, srv, bf, hist, pg >>

\* Receipts and series for computeLifetimeUsd: receipts of 3 and of 50 million
\* lamports at seconds 1 and 3, series of up to MaxSeriesLen points at
\* milliseconds 1000 and 3000, the empty list and the empty series included.
ReceiptChoices ==
    { [lamports |-> l, timestamp |-> ts] : l \in {3, 50000000}, ts \in {1, 3} }

ReceiptLists == UNION { [1..n -> ReceiptChoices] : n \in 0..2 }

LifetimePoints == { [tMs |-> t, priceUsd |-> p] : t \in {1000, 3000}, p \in {10, 20} }

LifetimeSeries == UNION { [1..n -> LifetimePoints] : n \in 0..MaxSeriesLen }

LifetimeInput(receipts, priceSeries) ==
    [pc |-> "input", fn |-> "computeLifetimeUsd", receipts |-> receipts,
     priceSeries |-> priceSeries, out |-> EmptyObject]

\* computeLifetimeUsd(receipts, priceSeries) is evaluated.
CalcLifetime ==
    /\ calc.pc = "input"
    /\ calc.fn = "computeLifetimeUsd"
    /\ calc' = [calc EXCEPT !.pc = "output",
                    !.out = computeLifetimeUsd(calc.receipts, calc.priceSeries)]
    /\ UNCHANGED << schedVars, served, srv, bf, hist, pg >>

OTHER_MINT == "otherMint"

\* A token transfer that passes every test, of the given amount.
Purchase(amt) ==
    [mint |-> TOKEN_MINT, toUserAccount |-> TRACKED_WALLET,
     fromUserAccount |-> PURCHASE_SOURCE_ADDRESS, tokenAmount |-> amt]

\* Token transfers as the history API may list them: purchases of 5 and 7
\* tokens, and transfers that fail one test each: a zero, negative, infinite or
\* missing amount, another mint, another destination, and an empty, different
\* or missing sender.
TokenTransfers ==
    { Purchase(amt) : amt \in {5, 7, 0, 0 - 2, Infinity} } \cup
    { [mint |-> TOKEN_MINT, toUserAccount |-> TRACKED_WALLET,
       fromUserAccount |-> PURCHASE_SOURCE_ADDRESS] } \cup
    { [Purchase(7) EXCEPT !.mint = OTHER_MINT],
      [Purchase(7) EXCEPT !.toUserAccount = OTHER_ACCOUNT] } \cup
    { [Purchase(7) EXCEPT !.fromUserAccount = from] : from \in {"", OTHER_ACCOUNT} } \cup
    { [mint |-> TOKEN_MINT, toUserAccount |-> TRACKED_WALLET, tokenAmount |-> 7] }

TokenTransferLists == UNION { [1..n -> TokenTransfers] : n \in 0..MaxTransfers }

\* Histories for computeTokenFlows: one transaction with a list of token
\* transfers, alone or followed by a transaction without a tokenTransfers
\* field or by one that holds a purchase.
TokenTxLists ==
    { << >> } \cup
    { << Tx(100, << >>, tokens, "sig") >> \o rest :
        tokens \in TokenTransferLists,
        rest \in { << >>,
                   << [timestamp |-> 200, signature |-> "sig"] >>,
                   << Tx(200, << >>, << Purchase(5) >>, "sig") >> } }

FlowsInput(transactions) ==
    [pc |-> "input", fn |-> "computeTokenFlows", transactions |-> transactions,
     out |-> EmptyObject]

\* computeTokenFlows(transactions, wallet, mint) is evaluated.
CalcFlows ==
    /\ calc.pc = "input"
    /\ calc.fn = "computeTokenFlows"
    /\ calc' = [calc EXCEPT !.pc = "output",
                    !.out = [purchasedFromSource |->
                        computeTokenFlows(calc.transactions, TRACKED_WALLET, TOKEN_MINT)]]
    /\ UNCHANGED << schedVars, served, srv, bf, hist, pg >>

InitDerive ==
    /\ SchedInit
    /\ SrvUnused
    /\ bf = BfIdle(DefaultMaxRetries)
    /\ HistUnused /\ PgUnused
    /\ \/ \E transactions \in TxLists : calc = ExtractInput(transactions)
       \/ \E priceSeries \in SeriesInputs, targetMs \in Targets :
             calc = NearestInput(priceSeries, targetMs)
       \/ \E receipts \in ReceiptLists, priceSeries \in LifetimeSeries :
             calc = LifetimeInput(receipts, priceSeries)
       \/ \E transactions \in TokenTxLists : calc = FlowsInput(transactions)

NextDerive ==
    \/ CalcExtract
    \/ CalcNearest
    \/ CalcLifetime
    \/ CalcFlows

\* One application of a derivation function to each input.
SpecDerive == InitDerive /\ [][NextDerive]_vars

\* Positions << i, j >> of the native transfers of the input history that go to
\* the tracked wallet with a strictly positive amount.
Inbound ==
    { q \in (1..Len(calc.transactions)) \X (1..MaxTransfers + 1) :
        LET tx == calc.transactions[q[1]] IN
        /\ "nativeTransfers" \in DOMAIN tx
        /\ q[2] <= Len(tx.nativeTransfers)
        /\ tx.nativeTransfers[q[2]].toUserAccount = TRACKED_WALLET
        /\ "amount" \in DOMAIN tx.nativeTransfers[q[2]]
        /\ tx.nativeTransfers[q[2]].amount > 0 }

\* The place of position q among the inbound ones, in history order.
RankOf(q) ==
    Cardinality({ r \in Inbound : r[1] < q[1] \/ (r[1] = q[1] /\ r[2] <= q[2]) })

RECURSIVE SumAmounts(_)
SumAmounts(positions) ==
    IF positions = {} THEN 0
    ELSE LET q == CHOOSE x \in positions : TRUE IN
         calc.transactions[q[1]].nativeTransfers[q[2]].amount
            + SumAmounts(positions \ {q})

\* C19: extractSolReceipts returns exactly one receipt for each native transfer
\* to the tracked wallet with a strictly positive amount, in history order with
\* the transfer's amount and its transaction's timestamp, and none for any
\* other transfer; totalSol is the sum of the receipts' lamports divided once
\* by 10^9.
C19_ReceiptsExact ==
    (calc.pc = "output" /\ calc.fn = "extractSolReceipts") =>
        /\ Len(calc.out.receipts) = Cardinality(Inbound)
        /\ \A q \in Inbound :
              calc.out.receipts[RankOf(q)] =
                  [lamports |-> calc.transactions[q[1]].nativeTransfers[q[2]].amount,
                   timestamp |-> calc.transactions[q[1]].timestamp]
        /\ \A k \in 1..Len(calc.out.receipts) : calc.out.receipts[k].lamports > 0
        /\ calc.out.totalSol = Frac(SumAmounts(Inbound), 1000000000)

\* A history whose first transaction pays the wallet 4 lamports after a
\* transfer without amount, and whose second lists a zero transfer and one of 3
\* lamports: two receipts, 7 lamports in all.
C19_Witness ==
    /\ calc.pc = "output"
    /\ calc.fn = "extractSolReceipts"
    /\ calc.transactions =
          << Tx(100, << [toUserAccount |-> TRACKED_WALLET],
                        [toUserAccount |-> TRACKED_WALLET, amount |-> 4] >>, << >>, "sig"),
             Tx(200, << [toUserAccount |-> TRACKED_WALLET, amount |-> 0],
                        [toUserAccount |-> TRACKED_WALLET, amount |-> 3] >>, << >>, "sig") >>
    /\ calc.out.receipts = << [lamports |-> 4, timestamp |-> 100],
                              [lamports |-> 3, timestamp |-> 200] >>
    /\ calc.out.totalSol = Frac(7, 1000000000)

\* The first index of the input series whose point is nearest to the target.
FirstNearest ==
    CHOOSE i \in 1..Len(calc.priceSeries) :
        \A j \in 1..Len(calc.priceSeries) :
            LET di == Abs(calc.targetMs - calc.priceSeries[i].tMs)
                dj == Abs(calc.targetMs - calc.priceSeries[j].tMs)
            IN di < dj \/ (di = dj /\ i <= j)

\* C20: on every non-empty series nearestPrice returns the price of a point at
\* minimal absolute time distance from the target, the first such point in
\* series order; on a one-point series that point's price for every target.
C20_NearestFirst ==
    (calc.pc = "output" /\ calc.fn = "nearestPrice") =>
        /\ calc.out = calc.priceSeries[FirstNearest].priceUsd
        /\ Len(calc.priceSeries) = 1 => calc.out = calc.priceSeries[1].priceUsd

\* Two points at the same distance from the target, the later one first in the
\* series: the first one's price is returned.
C20_Witness ==
    /\ calc.pc = "output"
    /\ calc.fn = "nearestPrice"
    /\ calc.targetMs = 1500
    /\ calc.priceSeries = << [tMs |-> 2000, priceUsd |-> 20],
                             [tMs |-> 1000, priceUsd |-> 10],
                             [tMs |-> 3000, priceUsd |-> 30] >>
    /\ calc.out = 20

\* The first index of the series whose point is nearest to targetMs.
FirstNearestAt(priceSeries, targetMs) ==
    CHOOSE i \in 1..Len(priceSeries) :
        \A j \in 1..Len(priceSeries) :
            LET di == Abs(targetMs - priceSeries[i].tMs)
                dj == Abs(targetMs - priceSeries[j].tMs)
            IN di < dj \/ (di = dj /\ i <= j)

\* Lamports times nearest price, summed over the receipts from index k on.
RECURSIVE LamportUsdFrom(_)
LamportUsdFrom(k) ==
    IF k > Len(calc.receipts) THEN 0
    ELSE calc.receipts[k].lamports
            * calc.priceSeries[FirstNearestAt(calc.priceSeries,
                                   calc.receipts[k].timestamp * 1000)].priceUsd
         + LamportUsdFrom(k + 1)

\* C21: computeLifetimeUsd returns 0 when the receipt list or the price series
\* is empty, and otherwise the sum over the receipts of the receipt's amount
\* in decimal units (lamports / 10^9) times the price of the point nearest to
\* receipt.timestamp * 1000 ms.
C21_LifetimeUsd ==
    (calc.pc = "output" /\ calc.fn = "computeLifetimeUsd") =>
        IF calc.receipts = << >> \/ calc.priceSeries = << >>
        THEN calc.out = FracZero
        ELSE /\ calc.out = Frac(LamportUsdFrom(1), 1000000000)
             /\ calc.out.num > 0

\* Two receipts, at seconds 1 and 3, valued at the prices of the points at
\* 1000 ms and 3000 ms: (3 * 10 + 50000000 * 20) / 10^9.
C21_Witness ==
    /\ calc.pc = "output"
    /\ calc.fn = "computeLifetimeUsd"
    /\ calc.receipts = << [lamports |-> 3, timestamp |-> 1],
                          [lamports |-> 50000000, timestamp |-> 3] >>
    /\ calc.priceSeries = << [tMs |-> 1000, priceUsd |-> 10],
                             [tMs |-> 3000, priceUsd |-> 20] >>
    /\ calc.out = Frac(1000000030, 1000000000)

\* The positions <<i, j>> of the token transfers of a history.
TokenPositions(transactions) ==
    { pos \in (1..Len(transactions)) \X (1..MaxTransfers + 1) :
        /\ "tokenTransfers" \in DOMAIN transactions[pos[1]]
        /\ pos[2] <= Len(transactions[pos[1]].tokenTransfers) }

\* The token transfer at a position.
TokenAt(pos) == calc.transactions[pos[1]].tokenTransfers[pos[2]]

\* The positions whose transfer has the tracked mint, goes to the tracked
\* wallet, has a finite positive amount and comes from the purchase source.
FromSource(transactions) ==
    { pos \in TokenPositions(transactions) :
        LET tt == transactions[pos[1]].tokenTransfers[pos[2]] IN
        /\ tt.mint = TOKEN_MINT
        /\ tt.toUserAccount = TRACKED_WALLET
        /\ "tokenAmount" \in DOMAIN tt
        /\ tt.tokenAmount > 0
        /\ tt.tokenAmount < Infinity
        /\ "fromUserAccount" \in DOMAIN tt
        /\ tt.fromUserAccount = PURCHASE_SOURCE_ADDRESS }

RECURSIVE SumTokensAt(_)
SumTokensAt(positions) ==
    IF positions = {} THEN 0
    ELSE LET pos == CHOOSE q \in positions : TRUE IN
         TokenAt(pos).tokenAmount + SumTokensAt(positions \ {pos})

\* C22: computeTokenFlows returns the sum of exactly those token-transfer
\* amounts whose mint is the tracked mint, whose destination is the tracked
\* wallet, whose amount is finite and positive and whose fromUserAccount is
\* the purchase-source address; a transfer with an empty, missing or
\* different fromUserAccount adds nothing.
C22_TokenFlows ==
    (calc.pc = "output" /\ calc.fn = "computeTokenFlows") =>
        calc.out = [purchasedFromSource |->
                        SumTokensAt(FromSource(calc.transactions))]

\* Two purchases in different transactions are summed (7 + 5) while a
\* transfer of 7 without a sender, in between, adds nothing.
C22_Witness ==
    /\ calc.pc = "output"
    /\ calc.fn = "computeTokenFlows"
    /\ Len(calc.transactions) = 2
    /\ calc.transactions[1].tokenTransfers =
          << Purchase(7),
             [mint |-> TOKEN_MINT, toUserAccount |-> TRACKED_WALLET, tokenAmount |-> 7] >>
    /\ calc.transactions[2] = Tx(200, << >>, << Purchase(5) >>, "sig")
    /\ calc.out = [purchasedFromSource |-> 12]

(***************************************************************************)
(* Part 10.  The scheduler of server.js (and of part_000)                  *)
(*                                                                         *)
(* server.js starts the main job, arms a one-shot timeout of 30 s for the  *)
(* price fetch, and arms BOTH intervals of 60 s in the same turn of the    *)
(* module-level script.  Time is counted in the units of 30 s used above:  *)
(* the timeout is due after StaggerUnits, the intervals every              *)
(* FastPeriodUnits.  A started job stays in flight until it settles.       *)
(***************************************************************************)

\* The clock of this specification stops here.
MaxSrvTime == 6

\* No timer armed / no run started yet.
Never == 0 - 1

\* srv before the module-level script has run.
SrvLoading ==
    [pc |-> "loading", now |-> 0,
     timeoutDue |-> Never, mainDue |-> Never, priceDue |-> Never,
     mainInFlight |-> 0, priceInFlight |-> 0,
     lastMainStart |-> Never, priceStarts |-> 0, priceOffset |-> Never]

\* fetchAndCacheData is called: one more main job in flight, started now.
SrvMainStarts(s) ==
    [s EXCEPT !.mainInFlight = @ + 1, !.lastMainStart = s.now]

\* fetchJupiterPrice is called: one more price fetch in flight; priceOffset
\* is the time since the most recent start of the main job.
SrvPriceStarts(s) ==
    [s EXCEPT !.priceInFlight = @ + 1, !.priceStarts = @ + 1,
              !.priceOffset = s.now - s.lastMainStart]

\* The module-level script: without HELIUS_API_KEY the process exits; else
\* the main job is called, the timeout and the two intervals are armed.
SrvStartup(hasKey) ==
    /\ srv.pc = "loading"
    /\ srv' = IF hasKey
                 THEN [SrvMainStarts(srv) EXCEPT
                          !.pc = "running",
                          !.timeoutDue = srv.now + StaggerUnits,
                          !.mainDue = srv.now + FastPeriodUnits,
                          !.priceDue = srv.now + FastPeriodUnits]
                 ELSE [srv EXCEPT !.pc = "exited"]
    /\ UNCHANGED << schedVars, served, bf, hist, pg, calc >>

\* setTimeout(fetchJupiterPrice, 30000) fires, once.
SrvTimeoutFires ==
    /\ srv.pc = "running"
    /\ srv.timeoutDue = srv.now
    /\ srv' = [SrvPriceStarts(srv) EXCEPT !.timeoutDue = Never]
    /\ UNCHANGED << schedVars, served, bf, hist, pg, calc >>

\* setInterval(fetchAndCacheData, CACHE_DURATION_MS) fires and re-arms.
SrvMainTimerFires ==
    /\ srv.pc = "running"
    /\ srv.mainDue = srv.now
    /\ srv' = [SrvMainStarts(srv) EXCEPT !.mainDue = srv.now + FastPeriodUnits]
    /\ UNCHANGED << schedVars, served, bf, hist, pg, calc >>

\* setInterval(fetchJupiterPrice, CACHE_DURATION_MS) fires and re-arms.  It
\* was armed after the main interval with the same delay, so at an instant
\* where both are due the main interval fires first.
SrvPriceTimerFires ==
    /\ srv.pc = "running"
    /\ srv.priceDue = srv.now
    /\ srv.mainDue # srv.now
    /\ srv' = [SrvPriceStarts(srv) EXCEPT !.priceDue = srv.now + FastPeriodUnits]
    /\ UNCHANGED << schedVars, served, bf, hist, pg, calc >>

\* A main job in flight settles (its try/catch swallows every failure).
SrvMainEnds ==
    /\ srv.mainInFlight > 0
    /\ srv' = [srv EXCEPT !.mainInFlight = @ - 1]
    /\ UNCHANGED << schedVars, served, bf, hist, pg, calc >>

\* A price fetch in flight settles.
SrvPriceEnds ==
    /\ srv.priceInFlight > 0
    /\ srv' = [srv EXCEPT !.priceInFlight = @ - 1]
    /\ UNCHANGED << schedVars, served, bf, hist, pg, calc >>

\* Time passes once every timer due now has fired.
SrvTick ==
    /\ srv.pc = "running"
    /\ srv.now < MaxSrvTime
    /\ srv.now \notin {srv.timeoutDue, srv.mainDue, srv.priceDue}
    /\ srv' = [srv EXCEPT !.now = @ + 1]
    /\ UNCHANGED << schedVars, served, bf, hist, pg, calc >>

InitSrv ==
    /\ SchedInit
    /\ bf = BfIdle(DefaultMaxRetries)
    /\ HistUnused /\ PgUnused /\ CalcUnused
    /\ srv = SrvLoading

NextSrv ==
    \/ \E hasKey \in BOOLEAN : SrvStartup(hasKey)
    \/ SrvTimeoutFires
    \/ SrvMainTimerFires
    \/ SrvPriceTimerFires
    \/ SrvMainEnds
    \/ SrvPriceEnds
    \/ SrvTick

SpecSrv == InitSrv /\ [][NextSrv]_vars

\* C39: every start of the price fetch, the recurring ones included, comes
\* one stagger (30 s) after the most recent start of the main job.
C39_PriceAfterMain ==
    srv.pc = "running" /\ srv.priceStarts >= 1 => srv.priceOffset = StaggerUnits

====
